---- MODULE Spec2Model ----
(***************************************************************************)
(* Finger-vein kiosk: the sensor protocol client (fingerprint_sensor.py),  *)
(* the background FingerWorker and the kiosk main loops of main.py and     *)
(* Final_Code.py.                                                          *)
(*                                                                         *)
(* The module holds several specifications over one set of variables:      *)
(*   SpecSensor / FairSensor  one thread calling verify_and_get_id and     *)
(*                            enroll_user against a device that answers    *)
(*                            with arbitrary frames, failures or silence   *)
(*   Spec                     the kiosk of main.py (FingerWorker + App)    *)
(*   SpecWorker / FairWorker  the FingerWorker of main.py with another     *)
(*                            thread contending for the sensor lock        *)
(*   FairPoller               the FingerWorker alone, scheduled fairly     *)
(*   SpecRecv                 one _recv_packet call, pass by pass          *)
(*   SpecCodec                one frame from _build_and_send to _parse_rsp *)
(*   SpecShutdown             FingerVeinSensor.shutdown                    *)
(*   SpecKeypad               App.run of main.py seen from the keypad      *)
(*   SpecLoop                 the passes of the while loop of App.run      *)
(*   SpecEnroll               the enrollment flows of Final_Code.py,       *)
(*                            Enrol_Oled.py and Enroll_Finger.py           *)
(*   SpecAssign               assign_next_code on one mapping              *)
(*   SpecLine                 operations and late replies on the serial    *)
(*                            line                                         *)
(*   SpecStatus               the IN/OUT status of one user over the days  *)
(* A specification leaves the variables of the others unchanged.           *)
(***************************************************************************)
EXTENDS Integers, Sequences, FiniteSets, TLC

VARIABLES
    \* ---- FingerVeinSensor, one calling thread (fingerprint_sensor.py)
    call,       \* the public operation being executed, "none" between calls
    spc,        \* where the call stands: "idle"; "settings", "sent" and "wait"
                \* are the three _recv_packet call sites (get_settings, the
                \* command's _build_and_send, the loop's last line); "done"
    ret,        \* last value returned by _build_and_send / _recv_packet
    bData,      \* RSP.bData, payload bytes 0..6 of the last parsed reply
    time_out,   \* verify_and_get_id's local time_out (seconds)
    frames,     \* 24-byte frames read since the Enroll / Verify command was sent
    rxSeq,      \* parity of the completed _recv_packet calls
    sent,       \* commands written to the serial port by the current call
    result,     \* how the call ended: a returned value or a raised exception
    seen,       \* history: the status bytes of the frames read since the
                \* call's last command was sent, the first MaxFrames of them
    \* ---- the kiosk: FingerWorker thread, main thread, what they share
    now,        \* time.time(), in half seconds
    wpc,        \* FingerWorker.run: "notstarted", "check", "acquire", "verify",
                \* "backoff", "finally", "exited"
    lock,       \* SENSOR_LOCK: "free" or its holder, "worker" / "fg"
    stop,       \* FingerWorker._stop
    fq,         \* App.fq, the finger ids of the queued ("finger_ok", fid) events
    last_reported_fid,      \* FingerWorker.last_reported_fid
    last_detection_time,    \* FingerWorker.last_detection_time
    it,         \* the worker's current iteration: lock acquisitions, releases,
                \* sensor calls, and how it went
    lastMatch,  \* history: the worker's last matched iteration
    lastPut,    \* history: the last event the worker put on the queue
    mpc,        \* main thread: "init", "connect", "failclose", "sleep", "run",
                \* "join", "close", "exit"
    wake,       \* when the main thread's time.sleep ends
    joinAt,     \* when fw.join(timeout=1.0) was entered
    last_finger_time,       \* App.last_finger_time
    ev,         \* history: the last event handle_finger was called with
    serOpen,    \* the serial handle is open
    \* ---- another thread that uses the sensor lock
    fgpc,       \* "idle", "waiting" in lock.acquire(), "holding"
    \* ---- one _recv_packet call, pass by pass of its loop
    rx,         \* pc: "idle", "loop", "done"; left: passes before the timeout
                \* has certainly run out; reads: completed 24-byte reads;
                \* raw: rsp_raw; ret: the returned code; cause: history, what
                \* ended the call
    \* ---- one frame from _build_and_send to _parse_rsp
    tx,         \* pc: "idle", "built", "checked"; CMD: the command packet;
                \* buf: cmd_buf as written; flip: history, the bit changed on
                \* the wire; RSP: the parsed packet; code: the checksum check
    \* ---- FingerVeinSensor.shutdown
    sd,         \* ser: the serial handle, "open" or "closed"; history of the
                \* current shutdown: close, how self.close() ended ("none",
                \* "returned", "raised"), code, what it returned; serClose,
                \* how self.ser.close() ended ("none", "ok", "raised")
    \* ---- App.run of main.py seen from the keypad
    kp,         \* pc: "poll" in the for loop over keypad.poll(), "fingers" in
                \* the loop over fq; state, buf: App.state, App.buf (characters
                \* as code points); idle: IdleAnimator.enabled; sinceTs:
                \* time.time() - last_ts; sinceFinger: time.time() -
                \* last_finger_time; sinceInput: history, in ENTERING the
                \* time since the last keypad event;
                \* last: history, the handler that ran last
    \* ---- the passes of the while loop of App.run of main.py
    lp,         \* pc: "top", "keys", "fingers"; state: App.state; fq: the
                \* queued finger ids; history of the pass: owed, how many of
                \* the events queued at its start are still queued; took, the
                \* events dequeued; entering, one was dequeued in ENTERING
    \* ---- one enrollment flow (Final_Code.py, Enrol_Oled.py, Enroll_Finger.py)
    en,         \* pc: "idle", "linked", "prompt", "empty", "enroll", "dup",
                \* "done"; variant: the file whose flow runs; user: the Code
                \* column of the selected user; fcm, ufm: finger_code_map.json
                \* and user_finger_map.json; finger_id: the local finger_id;
                \* history of the flow: key, the last 'enter' or 'back' taken
                \* at a prompt; called, a sensor operation was called; result,
                \* what enroll_user returned last; out, how the flow ended
    \* ---- a mapping that only assign_next_code changes
    am,         \* mapping: finger id (as str) -> code; history of the last
                \* call: uid, its user_id; before, the mapping it was given;
                \* code, what it returned; raised, it raised RuntimeError
    \* ---- the serial line between _build_and_send / _recv_packet and the device
    sb,         \* pc: "idle", "recv" inside _recv_packet; n: the number of
                \* the current operation; cmd: its command; owed: the
                \* commands (with their operation) the device has not yet
                \* answered; inbuf: the reply frames waiting in the input
                \* buffer, each with the command and operation it answers;
                \* last: history, the frame accepted last and by which
                \* operation
    \* ---- current_status.json and the attendance log, for one user code
    st          \* day: the date of datetime.now(); last_reset, status: the
                \* "last_reset" entry and the user's entry of the file ("none"
                \* when absent, -1 for no last_reset); pc: "idle", "log",
                \* "update" inside a check-in; action: the local action;
                \* history: rec, prev, the last two records of the user in
                \* attendance_log.csv (date and action)

sensorVars == <<call, spc, ret, bData, time_out, frames, rxSeq, sent, result, seen>>

workerVars == <<lock, stop, fq, last_reported_fid, last_detection_time, it,
                lastMatch, lastPut>>

mainVars == <<mpc, wake, joinAt, last_finger_time, ev, serOpen>>

kioskVars == <<now, wpc, workerVars, mainVars, fgpc, rx>>

\* the variables of the later specifications
moreVars == <<lp, en, am, sb, st>>

sideVars == <<tx, sd, kp, moreVars>>

\* the variables of the specifications above
coreVars == <<sensorVars, kioskVars, tx, sd, kp>>

\* all variables but one of the later specifications
notLp == <<coreVars, en, am, sb, st>>
notEn == <<coreVars, lp, am, sb, st>>
notAm == <<coreVars, lp, en, sb, st>>
notSb == <<coreVars, lp, en, am, st>>
notSt == <<coreVars, lp, en, am, sb>>

vars == <<sensorVars, kioskVars, sideVars>>

-----------------------------------------------------------------------------
(* Bounds of the model *)

\* the frame counter saturates here; the device may go on sending
MaxFrames == 4

\* the clock starts at StartTime, long after the epoch, and the model follows
\* it for Horizon half seconds
StartTime == 5
Horizon == 8

\* the worker matches a finger only while the queue holds fewer events
MaxQueue == 2

\* loop passes of _recv_packet that find nothing to read before the timeout
\* has certainly run out
MaxPolls == 2

-----------------------------------------------------------------------------
(* Protocol constants, fingerprint_sensor.py:6-21 *)

XG_CMD_CONNECTION == 1
XG_CMD_CLOSE_CONNECTION == 2
XG_CMD_GET_SYSTEM_INFO == 3
XG_CMD_GET_EMPTY_ID == 19
XG_CMD_ENROLL == 22
XG_CMD_VERIFY == 23

XG_ERR_SUCCESS == 0
XG_ERR_COM == 2
XG_ERR_DATA == 3
XG_ERR_TIME_OUT == 11
XG_ERR_NO_VEIN == 17
XG_INPUT_FINGER == 32
XG_RELEASE_FINGER == 33

\* Id_fin.py:8-9
NO_MATCH_STATUS == 1
NO_MATCH_REASON == 12

\* the reason byte Enroll_Finger.py and Enrol_Oled.py read as "finger already
\* enrolled" (0x0A)
DUPLICATE_REASON == 10

\* the timeout=3 of connect, close, get_settings and get_empty_id
CMD_TIME_OUT == 3

\* verify_and_get_id's fallback time_out and enroll_user's per-frame timeout
DEFAULT_TIME_OUT == 6
ENROLL_TIME_OUT == 6

-----------------------------------------------------------------------------
(* Strings are sequences of characters, so that formatting and substring  *)
(* search are computed and not assumed.                                    *)

STR_VERIFY_FAILED == <<"V", "e", "r", "i", "f", "y", " ", "f", "a", "i", "l", "e", "d", ",", " ", "s", "t", "a", "t", "u", "s", "=">>
STR_REASON == <<",", " ", "r", "e", "a", "s", "o", "n", "=">>
STR_VERIFY_COMM == <<"V", "e", "r", "i", "f", "y", " ", "c", "o", "m", "m", " ", "e", "r", "r", "o", "r", " ">>
STR_EMPTY_COMM == <<"G", "e", "t", "E", "m", "p", "t", "y", "I", "D", " ", "c", "o", "m", "m", " ", "e", "r", "r", "o", "r", " ">>
STR_EMPTY_DEVICE == <<"G", "e", "t", "E", "m", "p", "t", "y", "I", "D", " ", "d", "e", "v", "i", "c", "e", " ", "e", "r", "r", "o", "r", " ">>
STR_SERIAL == <<"w", "r", "i", "t", "e", " ", "f", "a", "i", "l", "e", "d">>
STR_STATUS_EQ == <<"s", "t", "a", "t", "u", "s", "=">>
STR_REASON_EQ == <<"r", "e", "a", "s", "o", "n", "=">>

Digit(d) == <<"0", "1", "2", "3", "4", "5", "6", "7", "8", "9">>[d + 1]

\* str(n) / f"{n}" of a non-negative integer
RECURSIVE Dec(_)
Dec(n) == IF n < 10 THEN <<Digit(n)>> ELSE Dec(n \div 10) \o <<Digit(n % 10)>>

\* Python's `needle in hay` on strings
Contains(hay, needle) ==
    \E i \in 1..(Len(hay) - Len(needle) + 1) :
        SubSeq(hay, i, i + Len(needle) - 1) = needle

-----------------------------------------------------------------------------
(* Integer helpers *)

\* Python's a | b on non-negative integers
RECURSIVE BitOr(_, _)
BitOr(a, b) ==
    IF a = 0 THEN b
    ELSE IF b = 0 THEN a
    ELSE (IF a % 2 = 1 \/ b % 2 = 1 THEN 1 ELSE 0) + 2 * BitOr(a \div 2, b \div 2)

\* Python's a << n
Shl(a, n) == a * (2 ^ n)

\* a plausible slip: the third byte shifted by 8 instead of 16
U32BadShift(b1, b2, b3, b4) ==
    BitOr(BitOr(BitOr(b1, Shl(b2, 8)), Shl(b3, 8)), Shl(b4, 24))

\* FingerVeinSensor._u32_from_bytes
U32FromBytes(b1, b2, b3, b4) ==
    BitOr(BitOr(BitOr(b1, Shl(b2, 8)), Shl(b3, 16)), Shl(b4, 24))

-----------------------------------------------------------------------------
(* What the device can put on the wire.  Payload bytes 0..6 of a reply;    *)
(* byte 0 is the status, byte 1 the reason or the low byte of an id.       *)
(* The id bytes are kept small enough for the u32 to stay below 2^31.      *)

StatusBytes == {XG_ERR_SUCCESS, NO_MATCH_STATUS, XG_ERR_DATA, XG_ERR_NO_VEIN,
                XG_INPUT_FINGER, XG_RELEASE_FINGER}

Payload(b0, b1, b2, b3, b4, b6) ==
    [i \in 0..6 |-> CASE i = 0 -> b0
                      [] i = 1 -> b1
                      [] i = 2 -> b2
                      [] i = 3 -> b3
                      [] i = 4 -> b4
                      [] i = 6 -> b6
                      [] OTHER -> 0]

\* payload bytes 1..4: a reason code in byte 1, or the four bytes of an id
TailBytes == {<<0, 0, 0, 0>>, <<NO_MATCH_REASON, 0, 0, 0>>, <<120, 0, 0, 0>>,
              <<DUPLICATE_REASON, 0, 0, 0>>,
              <<NO_MATCH_REASON, 1, 0, 0>>, <<NO_MATCH_REASON, 0, 1, 0>>,
              <<NO_MATCH_REASON, 0, 0, 1>>}

\* replies to Enroll and Verify
HandshakeFrames ==
    {Payload(s, b[1], b[2], b[3], b[4], 0) : s \in StatusBytes, b \in TailBytes}

\* frames whose checksum does not match: what they carry is arbitrary
CorruptFrames ==
    {Payload(s, 0, 0, 0, 0, 0) : s \in {XG_ERR_SUCCESS, XG_INPUT_FINGER, XG_ERR_NO_VEIN}}

\* replies to GetSystemInfo: byte 6 is the device's scan timeout
SettingsFrames ==
    {Payload(s, 0, 0, 0, 0, t) : s \in {XG_ERR_SUCCESS, NO_MATCH_STATUS}, t \in {0, 3}}

\* RSP.bData after RspPacket.__init__
ZeroData == [i \in 0..6 |-> 0]

-----------------------------------------------------------------------------
(* FingerVeinSensor._recv_packet: every way one call can end.              *)
(*   got   a 24-byte frame was read (and parsed into RSP)                  *)
(*   ret   the returned code                                               *)
(*   data  RSP.bData afterwards: the frame's payload when one was read,    *)
(*         the previous contents otherwise                                 *)

RecvPacket(cur, wire, timeout) ==
    IF timeout <= 0
    THEN {[got |-> FALSE, ret |-> XG_ERR_TIME_OUT, data |-> cur]}
    ELSE {[got |-> TRUE, ret |-> XG_ERR_SUCCESS, data |-> f] : f \in wire}
         \cup {[got |-> TRUE, ret |-> XG_ERR_DATA, data |-> f] : f \in CorruptFrames}
         \cup {[got |-> FALSE, ret |-> XG_ERR_COM, data |-> cur],
               [got |-> FALSE, ret |-> XG_ERR_TIME_OUT, data |-> cur]}

-----------------------------------------------------------------------------
(* How a call ends *)

NoResult == [kind |-> "none", value |-> 0, msg |-> <<>>]
Continue == [kind |-> "continue", value |-> 0, msg |-> <<>>]
Returns(v) == [kind |-> "return", value |-> v, msg |-> <<>>]
Raises(m) == [kind |-> "raise", value |-> 0, msg |-> m]

\* RuntimeError(f"Verify failed, status={status}, reason={self.RSP.bData[1]}")
VerifyFailedMsg(status, reason) ==
    STR_VERIFY_FAILED \o Dec(status) \o STR_REASON \o Dec(reason)

\* RuntimeError(f"Verify comm error {ret}")
VerifyCommMsg(r) == STR_VERIFY_COMM \o Dec(r)

\* the exception of a failing self.ser.write / self.ser.flush
SerialError == Raises(STR_SERIAL)

\* a mutant: NoVein handled like the intermediate statuses
VerifyLoopNoVeinWaits(r, d) ==
    IF r = XG_ERR_SUCCESS
    THEN IF d[0] = XG_ERR_SUCCESS
         THEN Returns(U32FromBytes(d[1], d[2], d[3], d[4]))
         ELSE IF d[0] \in {XG_INPUT_FINGER, XG_RELEASE_FINGER, XG_ERR_NO_VEIN}
         THEN Continue
         ELSE Raises(VerifyFailedMsg(d[0], d[1]))
    ELSE Raises(VerifyCommMsg(r))

\* one pass of verify_and_get_id's `while True` body on (ret, RSP.bData)
VerifyLoop(r, d) ==
    IF r = XG_ERR_SUCCESS
    THEN IF d[0] = XG_ERR_SUCCESS
         THEN Returns(U32FromBytes(d[1], d[2], d[3], d[4]))
         ELSE IF d[0] = XG_INPUT_FINGER
         THEN Continue
         ELSE IF d[0] = XG_RELEASE_FINGER
         THEN Continue
         ELSE Raises(VerifyFailedMsg(d[0], d[1]))
    ELSE Raises(VerifyCommMsg(r))

\* a mutant: a data error does not end the enroll loop
EnrollLoopIgnoresDataError(r, d) ==
    IF r # XG_ERR_SUCCESS /\ r # XG_ERR_DATA
    THEN Returns(r)
    ELSE IF r = XG_ERR_SUCCESS /\ d[0] = XG_ERR_SUCCESS
    THEN Returns(XG_ERR_SUCCESS)
    ELSE IF r = XG_ERR_DATA \/ d[0] \in {XG_INPUT_FINGER, XG_RELEASE_FINGER}
    THEN Continue
    ELSE Returns(d[1])

\* a mutant: ReleaseFinger taken as the end of the enrollment
EnrollLoopReleaseEnds(r, d) ==
    IF r # XG_ERR_SUCCESS
    THEN Returns(r)
    ELSE IF d[0] \in {XG_ERR_SUCCESS, XG_RELEASE_FINGER}
    THEN Returns(XG_ERR_SUCCESS)
    ELSE IF d[0] = XG_INPUT_FINGER
    THEN Continue
    ELSE Returns(d[1])

\* a mutant: the status byte returned instead of the reason byte
EnrollLoopReturnsStatus(r, d) ==
    IF r # XG_ERR_SUCCESS
    THEN Returns(r)
    ELSE IF d[0] = XG_ERR_SUCCESS
    THEN Returns(XG_ERR_SUCCESS)
    ELSE IF d[0] \in {XG_INPUT_FINGER, XG_RELEASE_FINGER}
    THEN Continue
    ELSE Returns(d[0])

\* one pass of enroll_user's `while True` body on (ret, RSP.bData)
EnrollLoop(r, d) ==
    IF r # XG_ERR_SUCCESS
    THEN Returns(r)
    ELSE IF d[0] = XG_ERR_SUCCESS
    THEN Returns(XG_ERR_SUCCESS)
    ELSE IF d[0] \in {XG_INPUT_FINGER, XG_RELEASE_FINGER}
    THEN Continue
    ELSE Returns(d[1])

\* a mutant: only the status byte of the settings reply is looked at
VerifyTimeOutStatusOnly(r, d) ==
    IF d[0] # XG_ERR_SUCCESS THEN DEFAULT_TIME_OUT ELSE d[6]

\* verify_and_get_id's choice of time_out from the get_settings result
VerifyTimeOut(r, d) ==
    IF r # XG_ERR_SUCCESS \/ d[0] # XG_ERR_SUCCESS THEN DEFAULT_TIME_OUT ELSE d[6]

\* connect and close: the reply's status byte, or the transport code
ConnectResult(r, d) == IF r = XG_ERR_SUCCESS THEN Returns(d[0]) ELSE Returns(r)

\* get_settings returns (ret, RSP.bData[:]); the value here is ret, the
\* payload is bData
GetSettingsResult(r, d) == Returns(r)

\* RuntimeError(f"GetEmptyID comm error {ret}")
EmptyCommMsg(r) == STR_EMPTY_COMM \o Dec(r)

\* RuntimeError(f"GetEmptyID device error {self.RSP.bData[0]}")
EmptyDeviceMsg(status) == STR_EMPTY_DEVICE \o Dec(status)

\* a mutant: one message for both failures
GetEmptyIdOneError(r, d) ==
    IF r # XG_ERR_SUCCESS \/ d[0] # XG_ERR_SUCCESS
    THEN Raises(EmptyCommMsg(IF r # XG_ERR_SUCCESS THEN r ELSE d[0]))
    ELSE Returns(U32FromBytes(d[1], d[2], d[3], d[4]))

\* get_empty_id after its _build_and_send
GetEmptyIdResult(r, d) ==
    IF r # XG_ERR_SUCCESS
    THEN Raises(EmptyCommMsg(r))
    ELSE IF d[0] # XG_ERR_SUCCESS
    THEN Raises(EmptyDeviceMsg(d[0]))
    ELSE Returns(U32FromBytes(d[1], d[2], d[3], d[4]))

\* the operations that send one command and read one reply
SimpleOps == {"connect", "close", "get_settings", "get_empty_id"}

\* CMD.bCmd of each
CommandOf(op) ==
    CASE op = "connect" -> XG_CMD_CONNECTION
      [] op = "close" -> XG_CMD_CLOSE_CONNECTION
      [] op = "get_settings" -> XG_CMD_GET_SYSTEM_INFO
      [] op = "get_empty_id" -> XG_CMD_GET_EMPTY_ID

\* what each does with the result of its _build_and_send
CommandResult(op, r, d) ==
    CASE op = "connect" -> ConnectResult(r, d)
      [] op = "close" -> ConnectResult(r, d)
      [] op = "get_settings" -> GetSettingsResult(r, d)
      [] op = "get_empty_id" -> GetEmptyIdResult(r, d)

\* Id_fin.is_no_match_error / FingerCodeReader._is_no_match_error
IsNoMatchError(msg) ==
    /\ Contains(msg, STR_STATUS_EQ \o Dec(NO_MATCH_STATUS))
    /\ Contains(msg, STR_REASON_EQ \o Dec(NO_MATCH_REASON))

-----------------------------------------------------------------------------
(* The kiosk of main.py: constants and initial state.  Times are in half   *)
(* seconds, the unit of `now`.                                             *)

\* FINGER_COOLDOWN = 2.0, main.py:43
FINGER_COOLDOWN == 4
\* the 2.0 of FingerWorker.run, main.py:250
WORKER_COOLDOWN == 4
\* time.sleep(1.5) after UNKNOWN FINGER, main.py:405
SLEEP_UNKNOWN == 3
\* time.sleep(3) after the welcome / goodbye screen, main.py:437
SLEEP_WELCOME == 6
\* time.sleep(2) after the banner of App.run, main.py:490
SLEEP_BANNER == 4
\* time.sleep(1.5) and time.sleep(3) of handle_code_submit
SLEEP_DENIED == 3
SLEEP_LOGGED == 6
\* fw.join(timeout=1.0), main.py:332
JOIN_TIMEOUT == 2

MaxTime == StartTime + Horizon

\* the finger ids the device can match, and those finger_code_map.json maps
Fids == {1, 2}
MappedFids == {1}

Min(a, b) == IF a < b THEN a ELSE b

\* the worker's iteration record at the top of the loop body
NewIteration == [acq |-> 0, rel |-> 0, calls |-> 0, outcome |-> "none"]

NoMatch == [fid |-> -1, put |-> FALSE, same |-> FALSE, gap |-> 0, skipped |-> FALSE]
NoPut == [fid |-> -1, t |-> 0, skipped |-> FALSE]
NoEvent == [fid |-> -1, prev |-> -1, looked |-> FALSE, waited |-> 0, n |-> 0, cleared |-> 0]

\* FingerWorker.__init__ (main.py:226-233) and the module-level SENSOR_LOCK
WorkerInit ==
    /\ lock = "free"
    /\ stop = FALSE
    /\ fq = <<>>
    /\ last_reported_fid = -1
    /\ last_detection_time = 0
    /\ it = NewIteration
    /\ lastMatch = NoMatch
    /\ lastPut = NoPut

\* the main thread before App() is constructed; App.__init__ sets
\* last_finger_time = 0 (main.py:301)
MainInit ==
    /\ mpc = "init"
    /\ wake = 0
    /\ joinAt = 0
    /\ last_finger_time = 0
    /\ ev = NoEvent
    /\ serOpen = TRUE

\* no _recv_packet call is being followed; rsp_raw is [0x00] * 24
NoCause == [kind |-> "none", delta |-> 0]
RxIdle == [pc |-> "idle", left |-> 0, reads |-> 0, raw |-> [i \in 1..24 |-> 0],
           ret |-> -1, cause |-> NoCause]

\* PREFIX_CODE = 0xAABB
PREFIX_CODE == 43707
\* the 16 of bData = [0x00] * 16
DATA_LEN == 16

\* CmdPacket.__init__ and RspPacket.__init__ set the same fields
CmdPacket(address) ==
    [wPrefix |-> PREFIX_CODE, bAddress |-> address, bCmd |-> 0, bEncode |-> 0,
     bDataLen |-> 0, bData |-> [i \in 1..DATA_LEN |-> 0], wCheckSum |-> 0]

\* no bit changed on the wire
NoFlip == <<0, 0>>

\* FingerVeinSensor.__init__: cmd_buf = [0x00] * 24, fresh CMD and RSP
TxIdle == [pc |-> "idle", payload |-> <<>>, CMD |-> CmdPacket(0),
           buf |-> [i \in 1..24 |-> 0], flip |-> NoFlip, RSP |-> CmdPacket(0),
           code |-> -1]

\* serial.Serial(...) of FingerVeinSensor.__init__ has opened the port
SdInit == [ser |-> "open", close |-> "none", code |-> -1, serClose |-> "none"]

\* the 10 of the typing timeout, main.py:532, in half seconds
TYPING_TIMEOUT == 20
\* time.sleep(1.0) after INVALID, main.py:526
SLEEP_INVALID == 2
\* the 5 of len(self.buf) < 5 and len(self.buf) != 5
CODE_LEN == 5

\* no handler has run yet
NoHandler == [n |-> 0, op |-> "none", val |-> 0, state0 |-> "IDLE", len0 |-> 0,
              silence |-> 0, known |-> FALSE, looked |-> FALSE, wrote |-> <<>>]

\* App.__init__ (state, buf, last_ts = time.time(), last_finger_time = 0) and
\* the banner of App.run with its time.sleep(2) and enter_idle()
KpInit == [pc |-> "poll", state |-> "IDLE", buf |-> <<>>, idle |-> TRUE,
           sinceTs |-> SLEEP_BANNER, sinceFinger |-> FINGER_COOLDOWN,
           sinceInput |-> 0, last |-> NoHandler]

\* App.run reaches its while loop in IDLE with an empty queue
LpInit == [pc |-> "top", state |-> "IDLE", fq |-> <<>>, owed |-> 0, took |-> 0,
           entering |-> FALSE]

\* a JSON file that does not exist yet: load_json returns {}
EmptyMap == [x \in {} |-> 0]

\* no enrollment flow runs and no finger is mapped
EnInit == [pc |-> "idle", variant |-> "none", user |-> "none",
           fcm |-> EmptyMap, ufm |-> EmptyMap, finger_id |-> -1,
           key |-> "none", called |-> FALSE, result |-> -1, out |-> "none"]

\* the empty mapping, before any assign_next_code call
AmInit == [mapping |-> EmptyMap, uid |-> -1, before |-> EmptyMap,
           code |-> "", raised |-> FALSE]

\* no frame accepted yet
NoFrame == [cmd |-> 0, of |-> 0, by |-> 0]

\* the port has just been opened: nothing written, nothing to read
SbInit == [pc |-> "idle", n |-> 0, cmd |-> 0, owed |-> <<>>, inbuf |-> <<>>,
           last |-> NoFrame]

\* no record of the user in the attendance log
NoRecord == [day |-> -1, action |-> "none"]

\* current_status.json does not exist yet
StInit == [day |-> 0, last_reset |-> -1, status |-> "none", pc |-> "idle",
           action |-> "none", rec |-> NoRecord, prev |-> NoRecord]

\* the later specifications at rest
MoreInit == lp = LpInit /\ en = EnInit /\ am = AmInit /\ sb = SbInit /\ st = StInit

\* nothing of the kiosk runs
KioskIdle ==
    /\ now = StartTime
    /\ wpc = "notstarted"
    /\ WorkerInit
    /\ MainInit
    /\ fgpc = "idle"
    /\ rx = RxIdle
    /\ tx = TxIdle
    /\ sd = SdInit
    /\ kp = KpInit
    /\ MoreInit

-----------------------------------------------------------------------------
(* The sensor client, one calling thread *)

SensorInit ==
    /\ call = "none"
    /\ spc = "idle"
    /\ ret = XG_ERR_SUCCESS
    /\ bData = ZeroData
    /\ time_out = 0
    /\ frames = 0
    /\ rxSeq = 0
    /\ sent = <<>>
    /\ result = NoResult
    /\ seen = <<>>

Bump(n) == IF n < MaxFrames THEN n + 1 ELSE n

\* the effect of one completed _recv_packet on the receive-side state
Received(o) ==
    /\ ret' = o.ret
    /\ bData' = o.data
    /\ rxSeq' = 1 - rxSeq
    /\ frames' = IF o.got THEN Bump(frames) ELSE frames
    /\ seen' = IF o.got /\ Len(seen) < MaxFrames THEN Append(seen, o.data[0]) ELSE seen

\* the call ends with outcome res, or goes on waiting when res is Continue
Settle(res) ==
    IF res.kind = "continue"
    THEN /\ spc' = "wait"
         /\ result' = NoResult
    ELSE /\ spc' = "done"
         /\ result' = res

\* verify_and_get_id up to get_settings' _build_and_send having written the
\* GetSystemInfo frame (or the write having raised)
VerifyCall ==
    /\ call = "none"
    /\ call' = "verify_and_get_id"
    /\ frames' = 0
    /\ \E sendOk \in BOOLEAN :
        IF sendOk
        THEN /\ sent' = <<XG_CMD_GET_SYSTEM_INFO>>
             /\ spc' = "settings"
             /\ result' = NoResult
        ELSE /\ sent' = <<>>
             /\ spc' = "done"
             /\ result' = SerialError
    /\ seen' = <<>>
    /\ UNCHANGED <<ret, bData, time_out, rxSeq>>
    /\ UNCHANGED <<kioskVars, sideVars>>

\* get_settings' reply (or failure) arrives; time_out is chosen and the
\* Verify frame is written
VerifySettings ==
    /\ call = "verify_and_get_id"
    /\ spc = "settings"
    /\ \E o \in RecvPacket(bData, SettingsFrames, 3) :
        /\ ret' = o.ret
        /\ bData' = o.data
        /\ rxSeq' = 1 - rxSeq
        /\ time_out' = VerifyTimeOut(o.ret, o.data)
    /\ frames' = 0
    /\ seen' = <<>>
    /\ \E sendOk \in BOOLEAN :
        IF sendOk
        THEN /\ sent' = Append(sent, XG_CMD_VERIFY)
             /\ spc' = "sent"
             /\ result' = NoResult
        ELSE /\ sent' = sent
             /\ spc' = "done"
             /\ result' = SerialError
    /\ UNCHANGED call
    /\ UNCHANGED <<kioskVars, sideVars>>

\* one _recv_packet of the verify handshake ends and the loop body runs on it
VerifyStep ==
    /\ call = "verify_and_get_id"
    /\ spc \in {"sent", "wait"}
    /\ \E o \in RecvPacket(bData, HandshakeFrames, time_out) :
        /\ Received(o)
        /\ Settle(VerifyLoop(o.ret, o.data))
    /\ UNCHANGED <<call, time_out, sent>>
    /\ UNCHANGED <<kioskVars, sideVars>>

\* enroll_user up to the Enroll frame having been written
EnrollCall ==
    /\ call = "none"
    /\ call' = "enroll_user"
    /\ frames' = 0
    /\ \E sendOk \in BOOLEAN :
        IF sendOk
        THEN /\ sent' = <<XG_CMD_ENROLL>>
             /\ spc' = "sent"
             /\ result' = NoResult
        ELSE /\ sent' = <<>>
             /\ spc' = "done"
             /\ result' = SerialError
    /\ seen' = <<>>
    /\ UNCHANGED <<ret, bData, time_out, rxSeq>>
    /\ UNCHANGED <<kioskVars, sideVars>>

\* one _recv_packet of the enroll handshake ends and the loop body runs on it
EnrollStep ==
    /\ call = "enroll_user"
    /\ spc \in {"sent", "wait"}
    /\ \E o \in RecvPacket(bData, HandshakeFrames, ENROLL_TIME_OUT) :
        /\ Received(o)
        /\ Settle(EnrollLoop(o.ret, o.data))
    /\ UNCHANGED <<call, time_out, sent>>
    /\ UNCHANGED <<kioskVars, sideVars>>

\* connect, close, get_settings or get_empty_id up to its command frame
\* having been written (or the write having raised)
CommandCall ==
    /\ call = "none"
    /\ \E op \in SimpleOps, sendOk \in BOOLEAN :
        /\ call' = op
        /\ IF sendOk
           THEN /\ sent' = <<CommandOf(op)>>
                /\ spc' = "sent"
                /\ result' = NoResult
           ELSE /\ sent' = <<>>
                /\ spc' = "done"
                /\ result' = SerialError
    /\ frames' = 0
    /\ seen' = <<>>
    /\ UNCHANGED <<ret, bData, time_out, rxSeq>>
    /\ UNCHANGED <<kioskVars, sideVars>>

\* a mutant: the command is written again after a timeout
CommandStepRetries ==
    /\ call \in SimpleOps
    /\ spc = "sent"
    /\ \E o \in RecvPacket(bData, HandshakeFrames, CMD_TIME_OUT) :
        /\ Received(o)
        /\ IF o.ret = XG_ERR_TIME_OUT /\ Len(sent) < 2
           THEN /\ sent' = Append(sent, CommandOf(call))
                /\ spc' = "sent"
                /\ result' = NoResult
           ELSE /\ sent' = sent
                /\ spc' = "done"
                /\ result' = CommandResult(call, o.ret, o.data)
    /\ UNCHANGED <<call, time_out>>
    /\ UNCHANGED <<kioskVars, sideVars>>

\* the one _recv_packet of connect, close, get_settings or get_empty_id ends
\* and the operation returns or raises
CommandStep ==
    /\ call \in SimpleOps
    /\ spc = "sent"
    /\ \E o \in RecvPacket(bData, HandshakeFrames, CMD_TIME_OUT) :
        /\ Received(o)
        /\ spc' = "done"
        /\ result' = CommandResult(call, o.ret, o.data)
    /\ UNCHANGED <<call, time_out, sent>>
    /\ UNCHANGED <<kioskVars, sideVars>>

\* the caller takes the outcome; the sensor object is ready for the next call
CallEnds ==
    /\ spc = "done"
    /\ call' = "none"
    /\ spc' = "idle"
    /\ result' = NoResult
    /\ sent' = <<>>
    /\ time_out' = 0
    /\ frames' = 0
    /\ seen' = <<>>
    /\ UNCHANGED <<ret, bData, rxSeq>>
    /\ UNCHANGED <<kioskVars, sideVars>>

SensorNext ==
    \/ VerifyCall
    \/ VerifySettings
    \/ VerifyStep
    \/ EnrollCall
    \/ EnrollStep
    \/ CommandCall
    \/ CommandStep
    \/ CallEnds

\* a sensor client next to a kiosk that has not been constructed
Init == SensorInit /\ KioskIdle

SpecSensor == Init /\ [][SensorNext]_vars

\* the calling thread keeps running and every _recv_packet ends within its
\* timeout, so a step that is possible is eventually taken
FairSensor == Init /\ [][SensorNext]_vars /\ WF_vars(SensorNext)

-----------------------------------------------------------------------------
(* Properties of the sensor client *)

\* the reply the loop last looked at was checksum-valid and intermediate
IntermediateReply == ret = XG_ERR_SUCCESS /\ bData[0] \in {XG_INPUT_FINGER, XG_RELEASE_FINGER}

\* the call got past its send: a loop pass is what ended it
EndedByLoop(op, n) == call = op /\ spc = "done" /\ Len(sent) = n

\* C4: enroll_user goes on receiving exactly as long as every reply is a
\* checksum-valid InputFinger / ReleaseFinger, however many there are; the
\* first other reply or transport failure ends the call, and a call that
\* has ended receives nothing more.
C4_EnrollKeepsReceiving ==
    /\ [](call = "enroll_user" =>
            /\ (spc = "wait" => IntermediateReply)
            /\ (EndedByLoop("enroll_user", 1) => ~IntermediateReply))
    /\ [][(call = "enroll_user" /\ (rxSeq' # rxSeq \/ frames' > frames))
            => (spc = "sent" \/ (spc = "wait" /\ IntermediateReply))]_vars

\* C4 witness: MaxFrames intermediate replies in a row and enroll_user is
\* still waiting for the next frame
C4_Witness ==
    call = "enroll_user" /\ spc = "wait" /\ frames = MaxFrames /\ IntermediateReply

\* C5: enroll_user returns 0 only when its last frame was checksum-valid with
\* status Success; every terminal failure yields a nonzero return value.
C5_ZeroOnlyOnSuccess ==
    (EndedByLoop("enroll_user", 1) /\ result.kind = "return")
        => (result.value = 0 <=> (ret = XG_ERR_SUCCESS /\ bData[0] = XG_ERR_SUCCESS))

\* C6: verify_and_get_id returns only on a checksum-valid Success reply, and
\* then the little-endian u32 of payload bytes 1..4; intermediate replies keep
\* it waiting; every other status and every transport failure raises.
C6_VerifyReturnsId ==
    call = "verify_and_get_id" =>
        /\ (spc = "wait" => IntermediateReply)
        /\ (spc = "done" /\ result.kind = "return" =>
                /\ Len(sent) = 2
                /\ ret = XG_ERR_SUCCESS
                /\ bData[0] = XG_ERR_SUCCESS
                /\ result.value = bData[1] + 256 * bData[2] + 65536 * bData[3]
                                    + 16777216 * bData[4])
        /\ (EndedByLoop("verify_and_get_id", 2) =>
                /\ ~IntermediateReply
                /\ (result.kind = "return"
                        <=> (ret = XG_ERR_SUCCESS /\ bData[0] = XG_ERR_SUCCESS))
                /\ result.kind \in {"return", "raise"})
        /\ (spc = "done" /\ Len(sent) < 2 => result.kind = "raise")

\* C6 witness: an id with a nonzero third byte returned after an
\* intermediate reply
C6_Witness ==
    /\ EndedByLoop("verify_and_get_id", 2)
    /\ result.kind = "return"
    /\ result.value = 65536 + NO_MATCH_REASON
    /\ frames >= 2

\* C7: a failed identify is classified as no-match exactly when the terminal
\* reply had status 1 and reason 12; every other status/reason pair and every
\* transport failure is classified as not a no-match.
C7_NoMatchExactly ==
    (call = "verify_and_get_id" /\ spc = "done" /\ result.kind = "raise")
        => (IsNoMatchError(result.msg)
                <=> /\ Len(sent) = 2
                    /\ ret = XG_ERR_SUCCESS
                    /\ bData[0] = NO_MATCH_STATUS
                    /\ bData[1] = NO_MATCH_REASON)

\* C8 as stated: every call of enroll_user and verify_and_get_id ends,
\* whatever the device sends.
C8_EveryCallEnds == (call # "none") ~> (spc = "done")

\* C8 amended: a call that never ends is one that receives checksum-valid
\* InputFinger / ReleaseFinger replies again and again without end.
C8_EndsUnlessIntermediate ==
    <>[](call # "none" /\ spc # "done")
        => /\ []<>(spc = "wait" /\ IntermediateReply /\ rxSeq = 0)
           /\ []<>(spc = "wait" /\ IntermediateReply /\ rxSeq = 1)

\* C8 witness: verify_and_get_id still waiting after MaxFrames intermediate
\* replies
C8_Witness ==
    call = "verify_and_get_id" /\ spc = "wait" /\ frames = MaxFrames /\ IntermediateReply

-----------------------------------------------------------------------------
(* The clock *)

Tick ==
    /\ mpc # "exit"
    /\ now < MaxTime
    /\ now' = now + 1
    /\ UNCHANGED <<workerVars, mainVars, wpc, sensorVars, fgpc, rx, sideVars>>

-----------------------------------------------------------------------------
(* FingerWorker.run of main.py *)

\* a mutant: the cooldown test written with >=
WorkerReportsAtCooldown(f, lastF, lastT, t) ==
    f # lastF \/ (t - lastT) >= WORKER_COOLDOWN

\* the debounce test of FingerWorker.run
WorkerReports(f, lastF, lastT, t) ==
    f # lastF \/ (t - lastT) > WORKER_COOLDOWN

\* `while not self._stop.is_set()`: leave the loop or start an iteration
W_Check ==
    /\ mpc # "exit"
    /\ wpc = "check"
    /\ IF stop
       THEN wpc' = "exited" /\ it' = it
       ELSE wpc' = "acquire" /\ it' = NewIteration
    /\ UNCHANGED <<lock, stop, fq, last_reported_fid, last_detection_time,
                   lastMatch, lastPut, now, mainVars, sensorVars, fgpc, rx, sideVars>>

\* `got = self.lock.acquire(timeout=0.2)`: the lock is taken and
\* verify_and_get_id is entered, or the acquire times out and the loop
\* continues
W_Acquire ==
    /\ mpc # "exit"
    /\ wpc = "acquire"
    /\ IF lock = "free"
       THEN /\ lock' = "worker"
            /\ wpc' = "verify"
            /\ it' = [it EXCEPT !.acq = @ + 1, !.calls = @ + 1]
       ELSE /\ lock' = lock
            /\ wpc' = "check"
            /\ it' = [it EXCEPT !.outcome = "timeout"]
    /\ UNCHANGED <<stop, fq, last_reported_fid, last_detection_time,
                   lastMatch, lastPut, now, mainVars, sensorVars, fgpc, rx, sideVars>>

\* verify_and_get_id returns a finger id; debounce, then out_q.put
W_VerifyReturn ==
    /\ mpc # "exit"
    /\ wpc = "verify"
    /\ serOpen
    /\ Len(fq) < MaxQueue
    /\ \E f \in Fids :
        LET report == f >= 0 /\ WorkerReports(f, last_reported_fid, last_detection_time, now)
        IN  /\ last_reported_fid' = IF report THEN f ELSE last_reported_fid
            /\ last_detection_time' = IF report THEN now ELSE last_detection_time
            /\ fq' = IF report THEN Append(fq, f) ELSE fq
            /\ lastMatch' = [fid |-> f,
                             put |-> report,
                             same |-> (lastPut.fid = f),
                             gap |-> Min(now - lastPut.t, WORKER_COOLDOWN + 1),
                             skipped |-> lastPut.skipped]
            /\ lastPut' = IF report
                          THEN [fid |-> f, t |-> now, skipped |-> FALSE]
                          ELSE [lastPut EXCEPT !.skipped = TRUE]
    /\ wpc' = "finally"
    /\ it' = [it EXCEPT !.outcome = "id"]
    /\ UNCHANGED <<lock, stop, now, mainVars, sensorVars, fgpc, rx, sideVars>>

\* a mutant: the exception leaves run()
W_VerifyRaiseEndsLoop ==
    /\ mpc # "exit"
    /\ wpc = "verify"
    /\ wpc' = "exited"
    /\ it' = [it EXCEPT !.outcome = "raise"]
    /\ UNCHANGED <<lock, stop, fq, last_reported_fid, last_detection_time,
                   lastMatch, lastPut, now, mainVars, sensorVars, fgpc, rx, sideVars>>

\* verify_and_get_id raises (no match, device error, timeout, comm error,
\* closed port): `except Exception` is entered
W_VerifyRaise ==
    /\ mpc # "exit"
    /\ wpc = "verify"
    /\ wpc' = "backoff"
    /\ it' = [it EXCEPT !.outcome = "raise"]
    /\ UNCHANGED <<lock, stop, fq, last_reported_fid, last_detection_time,
                   lastMatch, lastPut, now, mainVars, sensorVars, fgpc, rx, sideVars>>

\* time.sleep(0.2) of the except branch ends
W_Backoff ==
    /\ mpc # "exit"
    /\ wpc = "backoff"
    /\ wpc' = "finally"
    /\ UNCHANGED <<lock, stop, fq, last_reported_fid, last_detection_time, it,
                   lastMatch, lastPut, now, mainVars, sensorVars, fgpc, rx, sideVars>>

\* a mutant: the release placed at the end of the try body, not in finally
W_ReleaseOnlyAfterReturn ==
    /\ mpc # "exit"
    /\ wpc = "finally"
    /\ IF lock # "free" /\ it.outcome = "id"
       THEN lock' = "free" /\ it' = [it EXCEPT !.rel = @ + 1]
       ELSE lock' = lock /\ it' = it
    /\ wpc' = "check"
    /\ UNCHANGED <<stop, fq, last_reported_fid, last_detection_time,
                   lastMatch, lastPut, now, mainVars, sensorVars, fgpc, rx, sideVars>>

\* the finally block: self.lock.release(), a RuntimeError (release of an
\* unlocked lock) being swallowed
W_Release ==
    /\ mpc # "exit"
    /\ wpc = "finally"
    /\ IF lock # "free"
       THEN lock' = "free" /\ it' = [it EXCEPT !.rel = @ + 1]
       ELSE lock' = lock /\ it' = it
    /\ wpc' = "check"
    /\ UNCHANGED <<stop, fq, last_reported_fid, last_detection_time,
                   lastMatch, lastPut, now, mainVars, sensorVars, fgpc, rx, sideVars>>

-----------------------------------------------------------------------------
(* The main thread of main.py: App.__init__, App.run, App.shutdown *)

\* a mutant: handle_finger drops an event only when it repeats the last one
HandleFingerDropsRepeats(f, t, last) ==
    f = ev.fid /\ (t - last) < FINGER_COOLDOWN

\* the debounce check of App.handle_finger
HandleFingerDrops(f, t, last) == (t - last) < FINGER_COOLDOWN

\* finger_lookup: the finger id is a key of finger_code_map.json
Enrolled(f) == f \in MappedFids

\* App.__init__ up to self.sensor.connect being entered
M_Construct ==
    /\ mpc = "init"
    /\ mpc' = "connect"
    /\ UNCHANGED <<wake, joinAt, last_finger_time, ev, serOpen,
                   now, workerVars, wpc, sensorVars, fgpc, rx, sideVars>>

\* connect returns.  0: the rest of App.__init__ runs, the FingerWorker is
\* started and App.run shows its banner and sleeps.  Nonzero: SENSOR FAIL is
\* shown and sensor.shutdown() is entered.
M_ConnectEnd ==
    /\ mpc = "connect"
    /\ \E code \in {XG_ERR_SUCCESS, XG_ERR_TIME_OUT} :
        IF code = 0
        THEN /\ wpc' = "check"
             /\ mpc' = "sleep"
             /\ wake' = now + SLEEP_BANNER
        ELSE /\ wpc' = wpc
             /\ mpc' = "failclose"
             /\ wake' = wake
    /\ UNCHANGED <<joinAt, last_finger_time, ev, serOpen, now, workerVars, sensorVars, fgpc, rx, sideVars>>

\* a mutant: connect is tried again after the failure
M_FailCloseRetries ==
    /\ mpc = "failclose"
    /\ serOpen' = serOpen
    /\ mpc' = "connect"
    /\ UNCHANGED <<wake, joinAt, last_finger_time, ev, now, workerVars, wpc, sensorVars, fgpc, rx, sideVars>>

\* sensor.shutdown() of the failed construction ends: close() has returned,
\* the serial handle is closed, RuntimeError leaves main() with app = None
M_FailCloseEnd ==
    /\ mpc = "failclose"
    /\ serOpen' = FALSE
    /\ mpc' = "exit"
    /\ UNCHANGED <<wake, joinAt, last_finger_time, ev, now, workerVars, wpc, sensorVars, fgpc, rx, sideVars>>

\* a time.sleep of the main thread ends; the run loop goes on
M_Wake ==
    /\ mpc = "sleep"
    /\ now >= wake
    /\ mpc' = "run"
    /\ UNCHANGED <<wake, joinAt, last_finger_time, ev, serOpen,
                   now, workerVars, wpc, sensorVars, fgpc, rx, sideVars>>

\* a mutant: the queued events are kept
ClearFingerQueueKeeps(q) == q

\* App.clear_finger_queue: get_nowait until queue.Empty
ClearFingerQueue(q) == <<>>

\* the run loop takes an event with fq.get_nowait() and calls handle_finger:
\* inside the cooldown the event is dropped and the queue cleared; otherwise
\* the id is looked up, an unknown finger is shown for 1.5 s, a known one has
\* the queue cleared and its attendance screen shown for 3 s
M_Finger ==
    /\ mpc = "run"
    /\ fq # <<>>
    /\ LET f == Head(fq)
           drop == HandleFingerDrops(f, now, last_finger_time)
       IN  /\ IF drop
              THEN /\ fq' = ClearFingerQueue(Tail(fq))
                   /\ UNCHANGED <<mpc, wake, last_finger_time>>
              ELSE /\ last_finger_time' = now
                   /\ mpc' = "sleep"
                   /\ IF Enrolled(f)
                      THEN fq' = ClearFingerQueue(Tail(fq)) /\ wake' = now + SLEEP_WELCOME
                      ELSE fq' = Tail(fq) /\ wake' = now + SLEEP_UNKNOWN
           /\ ev' = [fid |-> f,
                     prev |-> ev.fid,
                     looked |-> ~drop,
                     waited |-> Min(now - last_finger_time, FINGER_COOLDOWN),
                     n |-> 1 - ev.n,
                     cleared |-> Len(fq) - 1 - Len(fq')]
    /\ UNCHANGED <<joinAt, serOpen, now, wpc, lock, stop, last_reported_fid,
                   last_detection_time, it, lastMatch, lastPut, sensorVars, fgpc, rx, sideVars>>

\* a 5-digit code is entered and ENTER pressed: handle_code_submit stamps
\* last_finger_time, then shows DENIED for 1.5 s (unknown code) or logs the
\* attendance and shows its screen for 3 s
M_CodeSubmit ==
    /\ mpc = "run"
    /\ last_finger_time' = now
    /\ \E known \in BOOLEAN :
        wake' = now + (IF known THEN SLEEP_LOGGED ELSE SLEEP_DENIED)
    /\ mpc' = "sleep"
    /\ UNCHANGED <<joinAt, ev, serOpen, now, workerVars, wpc, sensorVars, fgpc, rx, sideVars>>

\* KeyboardInterrupt or an exception leaves App.run; main()'s finally calls
\* App.shutdown: fw.stop(), then fw.join(timeout=1.0) is entered
M_Shutdown ==
    /\ mpc \in {"run", "sleep"}
    /\ stop' = TRUE
    /\ joinAt' = now
    /\ mpc' = "join"
    /\ UNCHANGED <<wake, last_finger_time, ev, serOpen, now, wpc, lock, fq,
                   last_reported_fid, last_detection_time, it, lastMatch, lastPut,
                   sensorVars, fgpc, rx, sideVars>>

\* join returns, the worker having ended or the timeout having run out;
\* sensor.shutdown() enters close()
M_JoinEnd ==
    /\ mpc = "join"
    /\ wpc = "exited" \/ now - joinAt >= JOIN_TIMEOUT
    /\ mpc' = "close"
    /\ UNCHANGED <<wake, joinAt, last_finger_time, ev, serOpen,
                   now, workerVars, wpc, sensorVars, fgpc, rx, sideVars>>

\* close() returns, ser.close() closes the handle, the process ends
M_CloseEnd ==
    /\ mpc = "close"
    /\ serOpen' = FALSE
    /\ mpc' = "exit"
    /\ UNCHANGED <<wake, joinAt, last_finger_time, ev, now, workerVars, wpc, sensorVars, fgpc, rx, sideVars>>

KioskNext ==
    \/ Tick
    \/ W_Check
    \/ W_Acquire
    \/ W_VerifyReturn
    \/ W_VerifyRaise
    \/ W_Backoff
    \/ W_Release
    \/ M_Construct
    \/ M_ConnectEnd
    \/ M_FailCloseEnd
    \/ M_Wake
    \/ M_Finger
    \/ M_CodeSubmit
    \/ M_Shutdown
    \/ M_JoinEnd
    \/ M_CloseEnd

\* the kiosk of main.py
Spec == Init /\ [][KioskNext]_vars

-----------------------------------------------------------------------------
(* The FingerWorker of main.py next to another user of the sensor lock *)

\* another thread calls SENSOR_LOCK.acquire() for a foreground sensor
\* operation and blocks in it
FgRequest ==
    /\ fgpc = "idle"
    /\ fgpc' = "waiting"
    /\ UNCHANGED <<lock, stop, fq, last_reported_fid, last_detection_time, it,
                   lastMatch, lastPut, now, mainVars, wpc, sensorVars, rx, sideVars>>

\* its acquire finds the lock free and takes it
FgAcquire ==
    /\ fgpc = "waiting"
    /\ lock = "free"
    /\ lock' = "fg"
    /\ fgpc' = "holding"
    /\ UNCHANGED <<stop, fq, last_reported_fid, last_detection_time, it,
                   lastMatch, lastPut, now, mainVars, wpc, sensorVars, rx, sideVars>>

\* and gives it back
FgRelease ==
    /\ fgpc = "holding"
    /\ lock = "fg"
    /\ lock' = "free"
    /\ fgpc' = "idle"
    /\ UNCHANGED <<stop, fq, last_reported_fid, last_detection_time, it,
                   lastMatch, lastPut, now, mainVars, wpc, sensorVars, rx, sideVars>>

\* it takes the queued events
FgDrain ==
    /\ fq # <<>>
    /\ fq' = <<>>
    /\ UNCHANGED <<lock, stop, last_reported_fid, last_detection_time, it,
                   lastMatch, lastPut, now, mainVars, wpc, sensorVars, fgpc, rx, sideVars>>

\* FingerWorker.stop
StopRequest ==
    /\ ~stop
    /\ stop' = TRUE
    /\ UNCHANGED <<lock, fq, last_reported_fid, last_detection_time, it,
                   lastMatch, lastPut, now, mainVars, wpc, sensorVars, fgpc, rx, sideVars>>

WorkerNext ==
    \/ Tick
    \/ W_Check
    \/ W_Acquire
    \/ W_VerifyReturn
    \/ W_VerifyRaise
    \/ W_Backoff
    \/ W_Release
    \/ FgRequest
    \/ FgAcquire
    \/ FgRelease
    \/ FgDrain
    \/ StopRequest

\* the worker has been started
WorkerStarted ==
    /\ now = StartTime
    /\ wpc = "check"
    /\ WorkerInit
    /\ MainInit
    /\ fgpc = "idle"
    /\ rx = RxIdle
    /\ tx = TxIdle
    /\ sd = SdInit
    /\ kp = KpInit
    /\ MoreInit

InitWorker == SensorInit /\ WorkerStarted

SpecWorker == InitWorker /\ [][WorkerNext]_vars

-----------------------------------------------------------------------------
(* Claims about the kiosk of main.py *)

\* a sensor operation of the main thread is executing on the transport
MainInSensorCall == mpc \in {"connect", "failclose", "close"}

\* verify_and_get_id of the FingerWorker is executing on the transport
WorkerInSensorCall == wpc = "verify"

\* C1: over every interleaving of the FingerWorker and the main thread
\* (construction, run loop, shutdown) at most one FingerVeinSensor operation
\* is executing on the serial transport at any time.
C1_OneSensorCallInFlight == ~(WorkerInSensorCall /\ MainInSensorCall)

\* C3: a FingerWorker iteration that acquired the sensor lock has released it
\* exactly once when the next iteration starts, whether verify_and_get_id
\* returned an id or raised; an iteration whose acquire timed out made no
\* sensor call and no release; the lock is held, unreleased, for the whole of
\* the sensor call and its except branch.
C3_LockReleasedOnce ==
    /\ it.acq <= 1
    /\ it.rel <= it.acq
    /\ it.calls <= it.acq
    /\ wpc \in {"check", "exited"} => (it.rel = it.acq /\ lock # "worker")
    /\ wpc \in {"verify", "backoff", "finally"}
          => (lock = "worker" /\ it.acq = 1 /\ it.calls = 1 /\ it.rel = 0)
    /\ it.outcome = "timeout" => (it.acq = 0 /\ it.calls = 0 /\ it.rel = 0)
    /\ it.outcome \in {"id", "raise"} => it.acq = 1

\* an iteration whose verify_and_get_id raised has released the lock once
C3_Witness ==
    /\ wpc = "check"
    /\ it.outcome = "raise"
    /\ it.acq = 1
    /\ it.rel = 1

\* C9: when verify_and_get_id returns the id of the last FingerEvent put on the
\* queue, nothing is put while the cooldown since that event is running (so
\* the two matches yield one event), and a second event is put once the
\* cooldown has elapsed.
C9_SameIdDebounced ==
    [][(wpc = "verify" /\ wpc' = "finally" /\ lastMatch'.same)
          => IF now - lastPut.t > WORKER_COOLDOWN
             THEN fq' = Append(fq, lastMatch'.fid)
             ELSE fq' = fq]_vars

\* the same id has been matched inside the cooldown, suppressed, then matched
\* after the cooldown and put a second time
C9_Witness ==
    /\ lastMatch.fid # -1
    /\ lastMatch.same
    /\ lastMatch.skipped
    /\ lastMatch.put
    /\ lastMatch.gap > WORKER_COOLDOWN

\* the FingerWorker enqueues every matched id that differs from the last one
\* it put on the queue
WorkerNeverSuppressesOtherId ==
    (lastMatch.fid # -1 /\ ~lastMatch.same) => lastMatch.put

\* C10 as stated: a matched id that differs from the last delivered one is
\* never suppressed: the FingerWorker enqueues it and the state machine looks
\* it up.
C10_OtherIdAlwaysLookedUp ==
    /\ WorkerNeverSuppressesOtherId
    /\ (ev.fid # -1 /\ ev.fid # ev.prev) => ev.looked

\* C10: the FingerWorker enqueues every matched id that differs from the last
\* one it put, even inside its cooldown; App.handle_finger looks an event up
\* exactly when FINGER_COOLDOWN has passed since the last event it accepted,
\* and drops it otherwise, whatever its id.
C10_OtherIdEnqueuedLookupAfterCooldown ==
    /\ WorkerNeverSuppressesOtherId
    /\ ev.fid # -1 => (ev.looked <=> ev.waited >= FINGER_COOLDOWN)

\* an event whose id differs from the one before it has been dropped by
\* handle_finger inside the cooldown
C10_Witness ==
    /\ ev.prev # -1
    /\ ev.fid # ev.prev
    /\ ~ev.looked
    /\ ev.waited < FINGER_COOLDOWN
    /\ lastMatch.fid = ev.fid
    /\ lastMatch.put

\* the worker's out_q.put: one event appended at the tail
WorkerPut == wpc = "verify" /\ \E f \in Fids : fq' = Append(fq, f)

\* C11 as stated: no FingerEvent is removed from the queue without being
\* passed to handle_finger.
C11_NoEventDiscarded == ev.cleared = 0

\* C11: the queue changes only by the worker appending one event or by the
\* run loop taking its head; every event taken is passed to handle_finger
\* once, in queue order, and handle_finger is called only with an event just
\* taken; the events queued behind it are discarded unhandled exactly when
\* handle_finger drops the event in its cooldown or accepts an enrolled finger.
C11_TakenOnceOrCleared ==
    /\ [][fq' # fq => (WorkerPut \/ (mpc = "run" /\ ev' # ev))]_vars
    /\ [][ev' # ev
            => /\ mpc = "run"
               /\ fq # <<>>
               /\ ev'.fid = Head(fq)
               /\ fq' = IF ~ev'.looked \/ Enrolled(Head(fq)) THEN <<>> ELSE Tail(fq)
               /\ ev'.cleared = Len(fq) - 1 - Len(fq')]_vars

\* handle_finger accepted an enrolled finger and one event queued behind it
\* was discarded
C11_Witness == ev.looked /\ Enrolled(ev.fid) /\ ev.cleared = 1

-----------------------------------------------------------------------------
(* The worker and the foreground thread, both scheduled *)

\* Both threads keep running: a step a thread can take is eventually taken,
\* and every verify_and_get_id call ends.  threading.Lock promises no order
\* among acquirers, so the foreground acquire is only weakly fair: it
\* succeeds if the lock stays free, not if it is free now and then.
FairWorker ==
    /\ InitWorker
    /\ [][WorkerNext]_vars
    /\ WF_vars(W_Check)
    /\ WF_vars(W_Acquire)
    /\ WF_vars(W_VerifyReturn \/ W_VerifyRaise)
    /\ WF_vars(W_Backoff)
    /\ WF_vars(W_Release)
    /\ WF_vars(FgAcquire)
    /\ WF_vars(FgRelease)

\* C12: a foreground thread waiting for the sensor lock while the FingerWorker
\* runs eventually acquires it, provided each verify_and_get_id call ends.
C12_ForegroundAcquires == (fgpc = "waiting") ~> (fgpc = "holding")

-----------------------------------------------------------------------------
(* The FingerWorker of main.py as main.py runs it: nobody else takes the   *)
(* sensor lock                                                             *)

PollerNext ==
    \/ Tick
    \/ W_Check
    \/ W_Acquire
    \/ W_VerifyReturn
    \/ W_VerifyRaise
    \/ W_Backoff
    \/ W_Release
    \/ FgDrain
    \/ StopRequest

\* the worker thread keeps running and every verify_and_get_id call ends
FairPoller ==
    /\ InitWorker
    /\ [][PollerNext]_vars
    /\ WF_vars(W_Check)
    /\ WF_vars(W_Acquire)
    /\ WF_vars(W_VerifyReturn \/ W_VerifyRaise)
    /\ WF_vars(W_Backoff)
    /\ WF_vars(W_Release)

\* the process has ended, or the worker has been asked to stop
WorkerMayEnd == stop \/ mpc = "exit"

\* C13: a verify_and_get_id that raises puts no event on the queue and does
\* not end the loop: the worker goes through its backoff and the finally
\* block back to the loop test, the loop is left only after stop was
\* requested, and unless that happens the worker calls verify_and_get_id
\* again.
C13_FailureIsRetried ==
    /\ [][(wpc = "verify" /\ it'.outcome = "raise") => (wpc' = "backoff" /\ fq' = fq)]_vars
    /\ [][wpc = "backoff" => (wpc' \in {"backoff", "finally"} /\ ~WorkerPut)]_vars
    /\ [][(wpc = "finally" /\ wpc' # wpc) => (wpc' = "check" /\ ~WorkerPut)]_vars
    /\ [][(wpc # "exited" /\ wpc' = "exited") => (wpc = "check" /\ stop)]_vars
    /\ (wpc = "backoff") ~> (wpc = "verify" \/ WorkerMayEnd)

\* an iteration whose verify_and_get_id raised is back at the loop test, no
\* event was ever put and the loop goes on
C13_Witness ==
    /\ wpc = "check"
    /\ it.outcome = "raise"
    /\ ~stop
    /\ fq = <<>>
    /\ lastPut.fid = -1

-----------------------------------------------------------------------------
(* Claims about the single-reply operations and the enroll handshake *)

\* the value connect hands back for transport result r and payload d
ConnectCode(r, d) == IF r = XG_ERR_SUCCESS THEN d[0] ELSE r

\* C14: connect returns 0 only after a checksum-valid reply with status
\* Success, and every failure, a failure to send included, comes back as a
\* nonzero return code: the device status or the transport code.
C14_ConnectReportsByCode ==
    (call = "connect" /\ spc = "done")
        => /\ result.kind = "return"
           /\ result.value = 0 <=> (Len(sent) = 1 /\ ret = XG_ERR_SUCCESS /\ bData[0] = XG_ERR_SUCCESS)
           /\ Len(sent) = 1 => result.value = ConnectCode(ret, bData)

\* C16: get_empty_id returns only when the transport result and the status
\* byte are both Success, and then the little-endian u32 of payload bytes
\* 1..4; a transport failure raises "GetEmptyID comm error", a device status
\* raises "GetEmptyID device error", and neither message contains the other.
C16_GetEmptyIdDistinctErrors ==
    (call = "get_empty_id" /\ spc = "done" /\ Len(sent) = 1)
        => /\ result.kind \in {"return", "raise"}
           /\ result.kind = "return" <=> (ret = XG_ERR_SUCCESS /\ bData[0] = XG_ERR_SUCCESS)
           /\ result.kind = "return"
                => result.value = bData[1] + 256 * bData[2] + 65536 * bData[3]
                                    + 16777216 * bData[4]
           /\ result.kind = "raise"
                => /\ Contains(result.msg, STR_EMPTY_COMM) <=> ret # XG_ERR_SUCCESS
                   /\ Contains(result.msg, STR_EMPTY_DEVICE) <=> ret = XG_ERR_SUCCESS
                   /\ ret # XG_ERR_SUCCESS => result.msg = STR_EMPTY_COMM \o Dec(ret)
                   /\ ret = XG_ERR_SUCCESS => result.msg = STR_EMPTY_DEVICE \o Dec(bData[0])

\* get_empty_id ended on a device-reported failure whose status has the value
\* of a transport code
C16_Witness ==
    /\ call = "get_empty_id"
    /\ spc = "done"
    /\ result.kind = "raise"
    /\ ret = XG_ERR_SUCCESS
    /\ bData[0] = XG_ERR_DATA

\* the command frames an operation writes when every write succeeds
Commands(op) ==
    CASE op = "verify_and_get_id" -> <<XG_CMD_GET_SYSTEM_INFO, XG_CMD_VERIFY>>
      [] op = "enroll_user" -> <<XG_CMD_ENROLL>>
      [] op \in SimpleOps -> <<CommandOf(op)>>
      [] OTHER -> <<>>

\* C17: an operation writes its command frames once each, in order: one for
\* connect, close, get_settings, get_empty_id and enroll_user, two for
\* verify_and_get_id (GetSystemInfo, then Verify whatever the settings reply
\* was); once the last of them is written nothing more is written, whatever
\* replies or failures follow.
C17_NoCommandResent ==
    /\ [](/\ Len(sent) <= Len(Commands(call))
          /\ sent = SubSeq(Commands(call), 1, Len(sent))
          /\ spc \in {"sent", "wait"} => sent = Commands(call)
          /\ spc = "settings" => sent = <<XG_CMD_GET_SYSTEM_INFO>>
          /\ (spc = "done" /\ result # SerialError) => sent = Commands(call))
    /\ [][sent' # sent
            => \/ sent' = <<>>
               \/ /\ spc \in {"idle", "settings"}
                  /\ Len(sent') = Len(sent) + 1]_vars

\* connect timed out and ended with its one frame written
C17_Witness ==
    /\ call = "connect"
    /\ spc = "done"
    /\ ret = XG_ERR_TIME_OUT
    /\ sent = <<XG_CMD_CONNECTION>>

\* what a device emits that answers Enroll with n InputFinger / ReleaseFinger
\* pairs and then Success
RECURSIVE Pairs(_)
Pairs(n) == IF n = 0 THEN <<>> ELSE <<XG_INPUT_FINGER, XG_RELEASE_FINGER>> \o Pairs(n - 1)

EnrollScript(n) == Pairs(n) \o <<XG_ERR_SUCCESS>>

\* the scripts the frame history can hold in full
ScriptPairs == 0..((MaxFrames - 1) \div 2)

\* enroll_user runs against such a device: every frame it has read so far is
\* the script's, and none was lost or damaged
OnScript(n) ==
    /\ call = "enroll_user"
    /\ Len(sent) = 1
    /\ Len(seen) <= Len(EnrollScript(n))
    /\ seen = SubSeq(EnrollScript(n), 1, Len(seen))
    /\ frames = Len(seen)
    /\ spc = "sent" \/ ret = XG_ERR_SUCCESS

EnrollReturnedSuccess == spc = "done" /\ result = Returns(XG_ERR_SUCCESS)

\* C18 as stated: against a device that emits N pairs and then Success,
\* enroll_user returns Success after exactly N+1 received frames.
C18_SuccessAfterNPlusOne ==
    \A n \in ScriptPairs :
        OnScript(n) => IF frames = n + 1
                       THEN EnrollReturnedSuccess
                       ELSE spc \in {"sent", "wait"}

\* C18: against a device that emits N pairs and then Success, enroll_user
\* returns Success after exactly 2N+1 received frames, one per frame of the
\* script, and is still receiving before that.
C18_SuccessAfterEveryFrame ==
    \A n \in ScriptPairs :
        OnScript(n) => IF frames = 2 * n + 1
                       THEN EnrollReturnedSuccess
                       ELSE spc \in {"sent", "wait"}

\* one pair, then Success: returned after three frames
C18_Witness == OnScript(1) /\ frames = 3 /\ EnrollReturnedSuccess

\* the first reply to Enroll is checksum-valid and its reason byte says
\* duplicate
FirstReplyDuplicate ==
    /\ call = "enroll_user"
    /\ Len(sent) = 1
    /\ spc # "sent"
    /\ frames = 1
    /\ ret = XG_ERR_SUCCESS
    /\ bData[1] = DUPLICATE_REASON

\* C19 as stated: a first reply with status Success and the duplicate reason
\* makes enroll_user return an outcome other than Success.
C19_DuplicateOnSuccessStatus ==
    (FirstReplyDuplicate /\ bData[0] = XG_ERR_SUCCESS)
        => (spc = "done" /\ result.kind = "return" /\ result.value # XG_ERR_SUCCESS)

\* C19: enroll_user reads the reason byte only when the status is a failure:
\* a first reply with a failure status and the duplicate reason ends the call
\* with DUPLICATE_REASON, a first reply with status Success ends it with 0
\* whatever the reason byte says; neither receives a further frame.
C19_DuplicateOnFailureStatus ==
    FirstReplyDuplicate
        => /\ bData[0] = XG_ERR_SUCCESS => EnrollReturnedSuccess
           /\ bData[0] \notin {XG_ERR_SUCCESS, XG_INPUT_FINGER, XG_RELEASE_FINGER}
                => (spc = "done" /\ result = Returns(DUPLICATE_REASON))
           /\ bData[0] \in {XG_INPUT_FINGER, XG_RELEASE_FINGER} => spc = "wait"

\* the duplicate outcome after one frame
C19_Witness ==
    /\ FirstReplyDuplicate
    /\ bData[0] = NO_MATCH_STATUS
    /\ spc = "done"
    /\ result = Returns(DUPLICATE_REASON)

\* C15: a nonzero connect during App construction shows SENSOR FAIL (the step
\* into "failclose"), is followed by sensor.shutdown and the end of the
\* process only; connect is entered once; the FingerWorker is started by a
\* successful connect alone, so after a failure it never runs and never calls
\* verify_and_get_id.
C15_FailedConnectIsTerminal ==
    /\ [](mpc \in {"init", "connect", "failclose"} => wpc = "notstarted")
    /\ [][mpc = "failclose" => mpc' \in {"failclose", "exit"}]_vars
    /\ [][(mpc' = "connect" /\ mpc # "connect") => mpc = "init"]_vars
    /\ [][(mpc' = "failclose" /\ mpc # "failclose") => mpc = "connect"]_vars
    /\ [][(wpc = "notstarted" /\ wpc' # "notstarted")
            => (mpc = "connect" /\ mpc' = "sleep" /\ wpc' = "check")]_vars
    /\ [][mpc = "exit" => mpc' = "exit"]_vars

\* the process has ended after a failed connect
C15_Witness == mpc = "exit" /\ wpc = "notstarted" /\ ~serOpen

-----------------------------------------------------------------------------
(* FingerVeinSensor._recv_packet, pass by pass, on 24-byte frames *)

\* 0xAABB, sent low byte first
PREFIX_LO == 187
PREFIX_HI == 170

\* a mutant: the last of the bytes left out of the sum
RECURSIVE SumBytesShort(_, _)
SumBytesShort(raw, n) == IF n <= 1 THEN 0 ELSE raw[n - 1] + SumBytesShort(raw, n - 1)

\* the sum of bytes 0..21 (here 1..22)
RECURSIVE SumBytes(_, _)
SumBytes(raw, n) == IF n = 0 THEN 0 ELSE raw[n] + SumBytes(raw, n - 1)

\* a 24-byte frame as a device builds it: prefix, address, command, encode,
\* length, 16 payload bytes of which two are given, and a checksum field that
\* is the sum of the first 22 bytes plus delta, low byte first
WireFrame(cmd, d0, d1, delta) ==
    LET body == [i \in 1..22 |-> CASE i = 1 -> PREFIX_LO
                                   [] i = 2 -> PREFIX_HI
                                   [] i = 4 -> cmd
                                   [] i = 6 -> 2
                                   [] i = 7 -> d0
                                   [] i = 8 -> d1
                                   [] OTHER -> 0]
        field == (SumBytes(body, 22) + delta) % 65536
    IN  [i \in 1..24 |-> IF i <= 22 THEN body[i]
                         ELSE IF i = 23 THEN field % 256
                         ELSE field \div 256]

\* how far off the checksum field of a frame on the wire is: not at all, in
\* its low byte, in its high byte
Deltas == {0, 1, 256}

\* what one pass of the loop can meet: fewer than 24 bytes waiting, a raising
\* serial access, a read that comes back short, or a 24-byte frame
RecvEvents ==
    {[kind |-> k, delta |-> 0, raw |-> <<>>] : k \in {"quiet", "raise", "short"}}
    \cup {[kind |-> "frame", delta |-> dl, raw |-> WireFrame(c, d0, d1, dl)] :
            c \in {XG_CMD_CONNECTION, XG_CMD_ENROLL},
            d0 \in {XG_ERR_SUCCESS, XG_INPUT_FINGER, 255},
            d1 \in {0, NO_MATCH_REASON},
            dl \in Deltas}

\* a mutant: only the low byte of the checksum compared
FrameCodeLowByte(raw) ==
    IF SumBytes(raw, 22) % 256 = raw[23] THEN XG_ERR_SUCCESS ELSE XG_ERR_DATA

\* the checksum check: chk &= 0xFFFF against RSP.wCheckSum = rsp[22] | rsp[23] << 8
FrameCode(raw) ==
    IF SumBytes(raw, 22) % 65536 = BitOr(raw[23], Shl(raw[24], 8))
    THEN XG_ERR_SUCCESS
    ELSE XG_ERR_DATA

\* _recv_packet is entered: start = time.time()
RecvCall ==
    /\ rx.pc = "idle"
    /\ \E n \in 0..MaxPolls :
        rx' = [rx EXCEPT !.pc = "loop", !.left = n, !.reads = 0, !.ret = -1,
                         !.cause = NoCause]
    /\ UNCHANGED <<sensorVars, now, wpc, workerVars, mainVars, fgpc, sideVars>>

\* one pass of the while body
RecvPass ==
    /\ rx.pc = "loop"
    /\ rx.left > 0
    /\ \E e \in RecvEvents :
        rx' = CASE e.kind = "quiet" -> [rx EXCEPT !.left = @ - 1]
                [] e.kind = "short" -> [rx EXCEPT !.left = @ - 1]
                [] e.kind = "raise" ->
                     [rx EXCEPT !.pc = "done", !.ret = XG_ERR_COM,
                                !.cause = [kind |-> "raise", delta |-> 0]]
                [] e.kind = "frame" ->
                     [rx EXCEPT !.pc = "done", !.raw = e.raw, !.reads = @ + 1,
                                !.ret = FrameCode(e.raw),
                                !.cause = [kind |-> "frame", delta |-> e.delta]]
    /\ UNCHANGED <<sensorVars, now, wpc, workerVars, mainVars, fgpc, sideVars>>

\* the while test finds the timeout run out
RecvExpire ==
    /\ rx.pc = "loop"
    /\ rx' = [rx EXCEPT !.pc = "done", !.ret = XG_ERR_TIME_OUT,
                        !.cause = [kind |-> "expired", delta |-> 0]]
    /\ UNCHANGED <<sensorVars, now, wpc, workerVars, mainVars, fgpc, sideVars>>

\* the caller has the code
RecvReturn ==
    /\ rx.pc = "done"
    /\ rx' = [rx EXCEPT !.pc = "idle"]
    /\ UNCHANGED <<sensorVars, now, wpc, workerVars, mainVars, fgpc, sideVars>>

RecvNext ==
    \/ RecvCall
    \/ RecvPass
    \/ RecvExpire
    \/ RecvReturn

SpecRecv == Init /\ [][RecvNext]_vars

\* C20: a _recv_packet call ends with exactly one of four codes: Success when
\* it read a 24-byte frame whose checksum field equals the sum of its first 22
\* bytes, DataError when it read one whose field is off, CommError when the
\* serial access raised, Timeout when the time ran out with no 24-byte frame
\* read; it reads at most one frame, so none after a mismatch.
C20_FourOutcomes ==
    /\ [](rx.pc = "done" =>
            /\ rx.ret \in {XG_ERR_SUCCESS, XG_ERR_DATA, XG_ERR_COM, XG_ERR_TIME_OUT}
            /\ rx.ret = XG_ERR_SUCCESS <=> (rx.cause.kind = "frame" /\ rx.cause.delta = 0)
            /\ rx.ret = XG_ERR_DATA <=> (rx.cause.kind = "frame" /\ rx.cause.delta # 0)
            /\ rx.ret = XG_ERR_COM <=> rx.cause.kind = "raise"
            /\ rx.ret = XG_ERR_TIME_OUT <=> rx.cause.kind = "expired"
            /\ rx.reads = (IF rx.cause.kind = "frame" THEN 1 ELSE 0))
    /\ [](rx.pc = "loop" => (rx.reads = 0 /\ rx.ret = -1))
    /\ [][rx.pc = "done" => (rx'.reads = rx.reads /\ rx'.raw = rx.raw /\ rx'.ret = rx.ret)]_vars

\* a frame whose checksum field is off in the high byte only was read after a
\* pass that found nothing, and the call ended with DataError
C20_Witness ==
    /\ rx.pc = "done"
    /\ rx.ret = XG_ERR_DATA
    /\ rx.cause = [kind |-> "frame", delta |-> 256]
    /\ rx.left < MaxPolls
    /\ rx.reads = 1

-----------------------------------------------------------------------------
(* One frame from _build_and_send to _parse_rsp and the checksum check *)

\* the commands, addresses and payloads tried
CodecCmds == {XG_CMD_CONNECTION, XG_CMD_VERIFY, 255}
CodecAddresses == {0, 1, 255}
CodecPayloads ==
    { <<>>, <<1>>, <<255, 0, 7>>,
      [i \in 1..DATA_LEN |-> 255], [i \in 1..DATA_LEN |-> i] }

\* what a public operation does before _build_and_send: bCmd, bAddress,
\* bDataLen and the payload bytes, set on the fresh CmdPacket
SetCommand(cmd, address, payload) ==
    [CmdPacket(address) EXCEPT
        !.bCmd = cmd,
        !.bDataLen = Len(payload),
        !.bData = [i \in 1..DATA_LEN |-> IF i <= Len(payload) THEN payload[i] ELSE 0]]

\* a mutant: the checksum stored high byte first
BuildFrameHighFirst(c) ==
    LET body == [i \in 1..22 |-> CASE i = 1 -> c.wPrefix % 256
                                   [] i = 2 -> (c.wPrefix \div 256) % 256
                                   [] i = 3 -> c.bAddress
                                   [] i = 4 -> c.bCmd
                                   [] i = 5 -> c.bEncode
                                   [] i = 6 -> c.bDataLen % 256
                                   [] OTHER -> c.bData[i - 6]]
        checksum == SumBytes(body, 22)
    IN  [i \in 1..24 |-> IF i <= 22 THEN body[i]
                         ELSE IF i = 23 THEN (checksum \div 256) % 256
                         ELSE checksum % 256]

\* cmd_buf as _build_and_send fills it
BuildFrame(c) ==
    LET body == [i \in 1..22 |-> CASE i = 1 -> c.wPrefix % 256
                                   [] i = 2 -> (c.wPrefix \div 256) % 256
                                   [] i = 3 -> c.bAddress
                                   [] i = 4 -> c.bCmd
                                   [] i = 5 -> c.bEncode
                                   [] i = 6 -> c.bDataLen % 256
                                   [] OTHER -> c.bData[i - 6]]
        checksum == SumBytes(body, 22)
    IN  [i \in 1..24 |-> IF i <= 22 THEN body[i]
                         ELSE IF i = 23 THEN checksum % 256
                         ELSE (checksum \div 256) % 256]

\* FingerVeinSensor._parse_rsp
ParseRsp(raw) ==
    [wPrefix |-> BitOr(raw[1], Shl(raw[2], 8)),
     bAddress |-> raw[3],
     bCmd |-> raw[4],
     bEncode |-> raw[5],
     bDataLen |-> raw[6],
     bData |-> [i \in 1..DATA_LEN |-> raw[6 + i]],
     wCheckSum |-> BitOr(raw[23], Shl(raw[24], 8))]

\* bit k of byte i (counted from 1) inverted
FlipBit(raw, i, k) ==
    LET bit == (raw[i] \div (2 ^ k)) % 2
    IN  [raw EXCEPT ![i] = IF bit = 1 THEN @ - 2 ^ k ELSE @ + 2 ^ k]

\* a command is set up and _build_and_send fills cmd_buf and writes it
BuildAndSend ==
    /\ tx.pc = "idle"
    /\ \E cmd \in CodecCmds, address \in CodecAddresses, payload \in CodecPayloads :
        LET c == SetCommand(cmd, address, payload)
        IN  tx' = [tx EXCEPT !.pc = "built", !.payload = payload, !.CMD = c,
                             !.buf = BuildFrame(c), !.flip = NoFlip, !.code = -1]
    /\ UNCHANGED <<sensorVars, kioskVars, sd, kp, moreVars>>

\* the 24 bytes come back as written and _recv_packet parses and checks them
LoopbackIntact ==
    /\ tx.pc = "built"
    /\ tx' = [tx EXCEPT !.pc = "checked", !.RSP = ParseRsp(tx.buf),
                        !.code = FrameCode(tx.buf)]
    /\ UNCHANGED <<sensorVars, kioskVars, sd, kp, moreVars>>

\* the 24 bytes come back with one bit of the first 22 bytes inverted
LoopbackFlipped ==
    /\ tx.pc = "built"
    /\ \E i \in 1..22, k \in 0..7 :
        LET raw == FlipBit(tx.buf, i, k)
        IN  tx' = [tx EXCEPT !.pc = "checked", !.flip = <<i, k>>,
                             !.RSP = ParseRsp(raw), !.code = FrameCode(raw)]
    /\ UNCHANGED <<sensorVars, kioskVars, sd, kp, moreVars>>

\* the next command starts from a fresh CmdPacket
CodecReset ==
    /\ tx.pc = "checked"
    /\ tx' = TxIdle
    /\ UNCHANGED <<sensorVars, kioskVars, sd, kp, moreVars>>

CodecNext ==
    \/ BuildAndSend
    \/ LoopbackIntact
    \/ LoopbackFlipped
    \/ CodecReset

SpecCodec == Init /\ [][CodecNext]_vars

\* C21: the 24 bytes _build_and_send writes, parsed by _parse_rsp, give back
\* the prefix, address, command, payload length and the payload padded with
\* zeros to 16 bytes, and the checksum check of _recv_packet accepts them.
C21_RoundTrip ==
    (tx.pc = "checked" /\ tx.flip = NoFlip) =>
        /\ tx.RSP.wPrefix = PREFIX_CODE
        /\ tx.RSP.bAddress = tx.CMD.bAddress
        /\ tx.RSP.bCmd = tx.CMD.bCmd
        /\ tx.RSP.bDataLen = Len(tx.payload)
        /\ \A i \in 1..DATA_LEN :
            tx.RSP.bData[i] = IF i <= Len(tx.payload) THEN tx.payload[i] ELSE 0
        /\ tx.code = XG_ERR_SUCCESS

\* a frame with address 255, command 255 and sixteen payload bytes 255 went
\* round
C21_Witness ==
    /\ tx.pc = "checked"
    /\ tx.flip = NoFlip
    /\ tx.CMD.bAddress = 255
    /\ tx.CMD.bCmd = 255
    /\ tx.payload = [i \in 1..DATA_LEN |-> 255]
    /\ tx.RSP.wCheckSum > 255

\* C22: the checksum field of an encoded frame is the sum of bytes 0..21
\* modulo 65536, low byte in byte 22 and high byte in byte 23, and a frame
\* with any single bit of its first 22 bytes inverted fails the checksum
\* check (DataError).
C22_BitFlipDetected ==
    /\ tx.pc # "idle" =>
        tx.buf[23] + 256 * tx.buf[24] = SumBytes(tx.buf, 22) % 65536
    /\ (tx.pc = "checked" /\ tx.flip # NoFlip) => tx.code = XG_ERR_DATA

\* the top bit of the last payload byte of an all-255 payload was inverted
C22_Witness ==
    /\ tx.pc = "checked"
    /\ tx.flip = <<22, 7>>
    /\ tx.payload = [i \in 1..DATA_LEN |-> 255]
    /\ tx.RSP.bData[DATA_LEN] = 127
    /\ tx.code = XG_ERR_DATA

-----------------------------------------------------------------------------
(* FingerVeinSensor.shutdown: close() and ser.close(), each in its own try *)

\* a mutant: the exception of a failing write leaves shutdown
ShutdownCallPropagates ==
    /\ call = "none"
    /\ call' = "shutdown"
    /\ \E sendOk \in BOOLEAN :
        /\ sendOk => sd.ser = "open"
        /\ IF sendOk
           THEN /\ sent' = <<XG_CMD_CLOSE_CONNECTION>>
                /\ spc' = "sent"
                /\ result' = NoResult
                /\ sd' = [sd EXCEPT !.close = "none", !.code = -1, !.serClose = "none"]
           ELSE /\ sent' = <<>>
                /\ spc' = "done"
                /\ result' = SerialError
                /\ sd' = [sd EXCEPT !.close = "raised", !.code = -1, !.serClose = "none"]
    /\ frames' = 0
    /\ seen' = <<>>
    /\ UNCHANGED <<ret, bData, time_out, rxSeq>>
    /\ UNCHANGED <<kioskVars, tx, kp, moreVars>>

\* shutdown is entered and close() gets as far as its command frame written,
\* or the write raises (as it does on a closed port) and the first except
\* clause swallows the exception
ShutdownCall ==
    /\ call = "none"
    /\ call' = "shutdown"
    /\ \E sendOk \in BOOLEAN :
        /\ sendOk => sd.ser = "open"
        /\ IF sendOk
           THEN /\ sent' = <<XG_CMD_CLOSE_CONNECTION>>
                /\ spc' = "sent"
                /\ sd' = [sd EXCEPT !.close = "none", !.code = -1, !.serClose = "none"]
           ELSE /\ sent' = <<>>
                /\ spc' = "serclose"
                /\ sd' = [sd EXCEPT !.close = "raised", !.code = -1, !.serClose = "none"]
    /\ result' = NoResult
    /\ frames' = 0
    /\ seen' = <<>>
    /\ UNCHANGED <<ret, bData, time_out, rxSeq>>
    /\ UNCHANGED <<kioskVars, tx, kp, moreVars>>

\* the _recv_packet of close() ends and close() returns its code, which
\* shutdown drops
ShutdownStep ==
    /\ call = "shutdown"
    /\ spc = "sent"
    /\ \E o \in RecvPacket(bData, HandshakeFrames, CMD_TIME_OUT) :
        /\ Received(o)
        /\ sd' = [sd EXCEPT !.close = "returned",
                            !.code = ConnectResult(o.ret, o.data).value]
    /\ spc' = "serclose"
    /\ UNCHANGED <<call, time_out, sent, result>>
    /\ UNCHANGED <<kioskVars, tx, kp, moreVars>>

\* self.ser.close() closes the handle or raises, the second except clause
\* swallows the exception, and shutdown returns None
ShutdownSerClose ==
    /\ call = "shutdown"
    /\ spc = "serclose"
    /\ \E ok \in BOOLEAN :
        sd' = IF ok THEN [sd EXCEPT !.ser = "closed", !.serClose = "ok"]
                    ELSE [sd EXCEPT !.serClose = "raised"]
    /\ spc' = "done"
    /\ result' = Returns(0)
    /\ UNCHANGED <<call, ret, bData, time_out, frames, rxSeq, sent, seen>>
    /\ UNCHANGED <<kioskVars, tx, kp, moreVars>>

ShutdownNext ==
    \/ ShutdownCall
    \/ ShutdownStep
    \/ ShutdownSerClose
    \/ CallEnds

SpecShutdown == Init /\ [][ShutdownNext]_vars

\* C23: shutdown ends by returning, never by an exception, whether the
\* close-connection frame was answered with any code, was not answered, or
\* could not be written; and it ends only after self.ser.close() has been
\* attempted.
C23_ShutdownNeverRaises ==
    /\ []((call = "shutdown" /\ spc = "done")
            => (result.kind = "return" /\ sd.serClose # "none"))
    /\ [][(call = "shutdown" /\ spc # "done" /\ spc' = "done") => spc = "serclose"]_vars

\* the write of the close-connection frame raised, self.ser.close() raised
\* too, and shutdown returned
C23_Witness ==
    /\ call = "shutdown"
    /\ spc = "done"
    /\ sd.close = "raised"
    /\ sd.serClose = "raised"
    /\ result.kind = "return"

-----------------------------------------------------------------------------
(* App.run of main.py: keypad events, typing timeout, finger events.       *)
(* Characters are code points.  Times are ages in half seconds, counted up *)
(* to the value past which the code no longer tells them apart.  The       *)
(* finger queue is followed in Spec and SpecLoop; here a finger event may  *)
(* be there or not.                                                        *)

\* the bytes the keypad UART delivers here: '1', the superscript two of
\* Latin-1, '*', CR, backspace, and 0x01
KeyBytes == {49, 178, 42, 13, 8, 1}

\* str.isdigit() on chr(b), b < 256: '0'..'9' and the superscripts 2, 3, 1
IsDigit(c) == c \in (48..57) \cup {178, 179, 185}

\* '0'..'9'
IsDecimal(c) == c \in 48..57

\* KeypadUART.decode_bytes_to_keys on one byte
DecodeByte(b) ==
    IF b \in {10, 13} THEN [ev |-> "enter", val |-> 0]
    ELSE IF b \in {8, 127} THEN [ev |-> "back", val |-> 0]
    ELSE IF b \in {0, 1} THEN [ev |-> "Home", val |-> 0]
    ELSE IF b = 2 THEN [ev |-> "PgUp", val |-> 0]
    ELSE IF b = 3 THEN [ev |-> "PgDn", val |-> 0]
    ELSE IF IsDigit(b) \/ b \in {42, 35} THEN [ev |-> "key", val |-> b]
    ELSE [ev |-> "none", val |-> 0]

\* the ages of k after d half seconds
Elapse(k, d) ==
    [k EXCEPT !.sinceTs = Min(@ + d, TYPING_TIMEOUT + 1),
              !.sinceFinger = Min(@ + d, FINGER_COOLDOWN),
              !.sinceInput = IF k.state = "ENTERING"
                             THEN Min(@ + d, TYPING_TIMEOUT + 1) ELSE 0]

\* App.enter_idle
EnterIdle(k) == [k EXCEPT !.state = "IDLE", !.buf = <<>>, !.idle = TRUE, !.sinceInput = 0]

\* the history of the handler that runs on k
Handler(k, op, val) ==
    [NoHandler EXCEPT !.n = 1 - k.last.n, !.op = op, !.val = val,
                      !.state0 = k.state, !.len0 = Len(k.buf)]

\* an attendance record: code, method, action
Record(code, method, action) == [code |-> code, method |-> method, action |-> action]

\* time passes
KpTick ==
    /\ kp.pc # "crashed"
    /\ kp' = Elapse(kp, 1)
    /\ kp' # kp
    /\ UNCHANGED <<sensorVars, kioskVars, tx, sd, moreVars>>

\* a mutant: typing that starts in IDLE starts on the old buffer contents
KeyEventDoubles(k, val) ==
    LET k1 == IF k.state = "IDLE" THEN [k EXCEPT !.state = "ENTERING", !.buf = <<val>>, !.idle = FALSE] ELSE k
    IN  IF k1.state = "ENTERING" /\ IsDigit(val) /\ Len(k1.buf) < CODE_LEN
        THEN [k1 EXCEPT !.buf = Append(@, val), !.sinceTs = 0, !.idle = FALSE]
        ELSE k1

\* ev == "key": typing starts in IDLE, and a digit is appended while the
\* buffer holds fewer than 5 characters
KeyEvent(k, val) ==
    LET k1 == IF k.state = "IDLE" THEN [k EXCEPT !.state = "ENTERING", !.buf = <<>>, !.idle = FALSE] ELSE k
    IN  IF k1.state = "ENTERING" /\ IsDigit(val) /\ Len(k1.buf) < CODE_LEN
        THEN [k1 EXCEPT !.buf = Append(@, val), !.sinceTs = 0, !.idle = FALSE]
        ELSE k1

\* a mutant: backspace on an empty buffer stays in ENTERING
BackEventStays(k) ==
    IF k.state = "ENTERING" /\ k.buf # <<>>
    THEN [k EXCEPT !.buf = SubSeq(@, 1, Len(@) - 1), !.sinceTs = 0, !.idle = FALSE]
    ELSE k

\* ev == "back"
BackEvent(k) ==
    IF k.state = "ENTERING" /\ k.buf # <<>>
    THEN [k EXCEPT !.buf = SubSeq(@, 1, Len(@) - 1), !.sinceTs = 0, !.idle = FALSE]
    ELSE IF k.state = "ENTERING" /\ k.buf = <<>>
    THEN EnterIdle(k)
    ELSE k

\* a key event of keypad.poll() is handled
KpKey ==
    /\ kp.pc = "poll"
    /\ \E b \in KeyBytes :
        /\ DecodeByte(b).ev = "key"
        /\ kp' = [KeyEvent(kp, b) EXCEPT !.sinceInput = 0, !.last = Handler(kp, "key", b)]
    /\ UNCHANGED <<sensorVars, kioskVars, tx, sd, moreVars>>

\* a back event is handled
KpBack ==
    /\ kp.pc = "poll"
    /\ \E b \in KeyBytes :
        /\ DecodeByte(b).ev = "back"
        /\ kp' = [BackEvent(kp) EXCEPT !.sinceInput = 0, !.last = Handler(kp, "back", 0)]
    /\ UNCHANGED <<sensorVars, kioskVars, tx, sd, moreVars>>

\* an event App.run has no branch for: Home, PgUp, PgDn
KpOther ==
    /\ kp.pc = "poll"
    /\ \E b \in KeyBytes :
        /\ DecodeByte(b).ev \in {"Home", "PgUp", "PgDn"}
        /\ kp' = [kp EXCEPT !.sinceInput = 0, !.last = Handler(kp, "other", 0)]
    /\ UNCHANGED <<sensorVars, kioskVars, tx, sd, moreVars>>

\* a mutant: a short buffer is submitted like a full one
SubmitAnyLength(k, known, action) ==
    IF k.state # "ENTERING"
    THEN k
    ELSE [EnterIdle(Elapse([k EXCEPT !.sinceFinger = 0],
                           IF known THEN SLEEP_LOGGED ELSE SLEEP_DENIED)) EXCEPT
             !.last.known = known, !.last.looked = TRUE,
             !.last.wrote = IF known THEN <<Record(k.buf, "code", action)>>
                            ELSE <<Record(k.buf, "code", "DENIED")>>]

\* a mutant: an unknown code is turned away without a record
SubmitDropsDenied(k, known, action) ==
    IF k.state # "ENTERING"
    THEN k
    ELSE IF Len(k.buf) # CODE_LEN
    THEN EnterIdle(Elapse(k, SLEEP_INVALID))
    ELSE [EnterIdle(Elapse([k EXCEPT !.sinceFinger = 0],
                           IF known THEN SLEEP_LOGGED ELSE SLEEP_DENIED)) EXCEPT
             !.last.known = known, !.last.looked = TRUE,
             !.last.wrote = IF known THEN <<Record(k.buf, "code", action)>> ELSE <<>>]

\* ev == "enter": INVALID for a buffer that is not 5 long, handle_code_submit
\* otherwise; known says whether code_to_name has the code, action is what
\* get_user_status makes of the status file
Submit(k, known, action) ==
    IF k.state # "ENTERING"
    THEN k
    ELSE IF Len(k.buf) # CODE_LEN
    THEN EnterIdle(Elapse(k, SLEEP_INVALID))
    ELSE [EnterIdle(Elapse([k EXCEPT !.sinceFinger = 0],
                           IF known THEN SLEEP_LOGGED ELSE SLEEP_DENIED)) EXCEPT
             !.last.known = known, !.last.looked = TRUE,
             !.last.wrote = IF known THEN <<Record(k.buf, "code", action)>>
                            ELSE <<Record(k.buf, "code", "DENIED")>>]

\* an enter event is handled
KpEnter ==
    /\ kp.pc = "poll"
    /\ \E b \in KeyBytes, known \in BOOLEAN, action \in {"IN", "OUT"} :
        /\ DecodeByte(b).ev = "enter"
        /\ LET k0 == [kp EXCEPT !.sinceInput = 0, !.last = Handler(kp, "enter", 0)]
           IN  kp' = Submit(k0, known, action)
    /\ UNCHANGED <<sensorVars, kioskVars, tx, sd, moreVars>>

\* the condition of the typing timeout
TypingTimedOut(k) == k.state = "ENTERING" /\ k.sinceTs > TYPING_TIMEOUT

\* the for loop over keypad.poll() is over and the typing timeout is tested
KpTimeout ==
    /\ kp.pc = "poll"
    /\ kp' = IF TypingTimedOut(kp)
             THEN [EnterIdle(kp) EXCEPT
                      !.pc = "fingers",
                      !.last = [Handler(kp, "timeout", 0) EXCEPT !.silence = kp.sinceInput]]
             ELSE [kp EXCEPT !.pc = "fingers"]
    /\ UNCHANGED <<sensorVars, kioskVars, tx, sd, moreVars>>

\* the debounce check of App.handle_finger on the age of last_finger_time
Recent(k) == k.sinceFinger < FINGER_COOLDOWN

\* handle_finger from its debounce check on
HandleFinger(k, f, action) ==
    IF Recent(k)
    THEN k
    ELSE IF ~Enrolled(f)
    THEN [EnterIdle(Elapse([k EXCEPT !.sinceFinger = 0], SLEEP_UNKNOWN)) EXCEPT
             !.last.looked = TRUE]
    ELSE [EnterIdle(Elapse([k EXCEPT !.sinceFinger = 0], SLEEP_WELCOME)) EXCEPT
             !.last.looked = TRUE, !.last.known = TRUE,
             !.last.wrote = <<Record(<<f>>, "finger", action)>>]

\* a mutant: the buffer survives a finger event
FingerEventKeepsBuf(k, f, action) ==
    HandleFinger([k EXCEPT !.last = Handler(k, "finger", f)], f, action)

\* fq.get_nowait() returns ("finger_ok", f): state and buf are reset and
\* handle_finger runs
FingerEvent(k, f, action) ==
    HandleFinger([k EXCEPT !.state = "IDLE", !.buf = <<>>, !.sinceInput = 0,
                           !.last = Handler(k, "finger", f)], f, action)

\* one queued finger event is taken and handled
KpFinger ==
    /\ kp.pc = "fingers"
    /\ \E f \in Fids, action \in {"IN", "OUT"} : kp' = FingerEvent(kp, f, action)
    /\ UNCHANGED <<sensorVars, kioskVars, tx, sd, moreVars>>

\* the attendance log or the status file cannot be written while
\* handle_code_submit runs: the exception leaves App.run, main() prints it
\* and shuts down
KpSubmitRaises ==
    /\ kp.pc = "poll"
    /\ kp.state = "ENTERING"
    /\ Len(kp.buf) = CODE_LEN
    /\ kp' = [kp EXCEPT !.pc = "crashed", !.idle = FALSE, !.sinceFinger = 0,
                        !.sinceInput = 0,
                        !.last = [Handler(kp, "io_error", 0) EXCEPT !.looked = TRUE]]
    /\ UNCHANGED <<sensorVars, kioskVars, tx, sd, moreVars>>

\* finger_lookup cannot read its files, or the log or status file cannot be
\* written, while handle_finger runs: the exception leaves App.run
KpFingerRaises ==
    /\ kp.pc = "fingers"
    /\ ~Recent(kp)
    /\ \E f \in Fids :
        kp' = [kp EXCEPT !.pc = "crashed", !.state = "IDLE", !.buf = <<>>,
                         !.idle = FALSE, !.sinceFinger = 0, !.sinceInput = 0,
                         !.last = Handler(kp, "io_error", f)]
    /\ UNCHANGED <<sensorVars, kioskVars, tx, sd, moreVars>>

\* queue.Empty: the pass ends with time.sleep(0.02)
KpFingersDone ==
    /\ kp.pc = "fingers"
    /\ kp' = [kp EXCEPT !.pc = "poll"]
    /\ UNCHANGED <<sensorVars, kioskVars, tx, sd, moreVars>>

KeypadNext ==
    \/ KpTick
    \/ KpKey
    \/ KpBack
    \/ KpOther
    \/ KpEnter
    \/ KpTimeout
    \/ KpFinger
    \/ KpFingersDone
    \/ KpSubmitRaises
    \/ KpFingerRaises

SpecKeypad == Init /\ [][KeypadNext]_vars

\* the step is a run of the handler op
Handled(op) == kp'.last.n # kp.last.n /\ kp'.last.op = op

\* C24: a key event with a decimal digit handled in IDLE leaves the kiosk in
\* ENTERING with a buffer of exactly that digit.
C24_DigitStartsEntry ==
    [][(Handled("key") /\ kp.state = "IDLE" /\ IsDecimal(kp'.last.val))
         => (kp'.state = "ENTERING" /\ kp'.buf = <<kp'.last.val>>)]_vars

\* the key '1' was handled in IDLE
C24_Witness ==
    /\ kp.last.op = "key"
    /\ kp.last.val = 49
    /\ kp.last.state0 = "IDLE"
    /\ kp.state = "ENTERING"
    /\ kp.buf = <<49>>

\* C25: the code buffer of main.py always holds at most 5 characters, each a
\* decimal digit.
C25_BufferOfDecimalDigits ==
    /\ Len(kp.buf) <= CODE_LEN
    /\ \A i \in 1..Len(kp.buf) : IsDecimal(kp.buf[i])

\* C26: a back event in ENTERING with a non-empty buffer removes the last
\* character and stays in ENTERING; with an empty buffer it goes to IDLE; in
\* IDLE it changes neither the state nor the buffer.
C26_Backspace ==
    [][Handled("back")
         => /\ (kp.state = "ENTERING" /\ kp.buf # <<>>)
                => /\ kp'.state = "ENTERING"
                   /\ Len(kp'.buf) = Len(kp.buf) - 1
                   /\ \A i \in 1..Len(kp'.buf) : kp'.buf[i] = kp.buf[i]
            /\ (kp.state = "ENTERING" /\ kp.buf = <<>>)
                => (kp'.state = "IDLE" /\ kp'.buf = <<>>)
            /\ kp.state = "IDLE"
                => (kp'.state = "IDLE" /\ kp'.buf = kp.buf /\ kp'.sinceTs = kp.sinceTs)]_vars

\* a back event on an empty buffer in ENTERING has put the kiosk in IDLE
C26_Witness ==
    /\ kp.last.op = "back"
    /\ kp.last.state0 = "ENTERING"
    /\ kp.last.len0 = 0
    /\ kp.state = "IDLE"

\* C27: an enter event in ENTERING with a buffer that is not 5 long puts the
\* kiosk in IDLE with an empty buffer; no code is looked up and no attendance
\* record is written.
C27_ShortSubmitRejected ==
    [][(Handled("enter") /\ kp.state = "ENTERING" /\ Len(kp.buf) # CODE_LEN)
         => /\ kp'.state = "IDLE"
            /\ kp'.buf = <<>>
            /\ ~kp'.last.looked
            /\ kp'.last.wrote = <<>>]_vars

\* four characters were submitted
C27_Witness ==
    /\ kp.last.op = "enter"
    /\ kp.last.state0 = "ENTERING"
    /\ kp.last.len0 = 4
    /\ kp.state = "IDLE"
    /\ kp.buf = <<>>
    /\ ~kp.last.looked

\* C28: an enter event in ENTERING with a 5-character buffer looks the buffer
\* up as a code, writes exactly one attendance record for it (IN or OUT for a
\* known code, DENIED for an unknown one) and puts the kiosk in IDLE with an
\* empty buffer.
C28_FullSubmitLogged ==
    [][(Handled("enter") /\ kp.state = "ENTERING" /\ Len(kp.buf) = CODE_LEN)
         => /\ kp'.state = "IDLE"
            /\ kp'.buf = <<>>
            /\ kp'.last.looked
            /\ Len(kp'.last.wrote) = 1
            /\ kp'.last.wrote[1].code = kp.buf
            /\ kp'.last.wrote[1].method = "code"
            /\ kp'.last.known => kp'.last.wrote[1].action \in {"IN", "OUT"}
            /\ ~kp'.last.known => kp'.last.wrote[1].action = "DENIED"]_vars

\* the unknown code 11111 was submitted and a DENIED record written
C28_Witness ==
    /\ kp.last.op = "enter"
    /\ kp.last.state0 = "ENTERING"
    /\ kp.last.looked
    /\ ~kp.last.known
    /\ kp.last.wrote = <<Record(<<49, 49, 49, 49, 49>>, "code", "DENIED")>>
    /\ kp.state = "IDLE"

\* C29: the typing timeout evicts only when no keypad event has arrived for
\* more than 10 seconds.
C29_EvictedOnlyAfterSilence ==
    kp.last.op = "timeout" => kp.last.silence > TYPING_TIMEOUT

\* C30: a finger event taken from the queue in ENTERING with a non-empty
\* buffer leaves the kiosk in IDLE with an empty buffer when its handling
\* ends, and writes no attendance record when the finger id is not mapped.
C30_FingerDiscardsBuffer ==
    [][(Handled("finger") /\ kp.state = "ENTERING" /\ kp.buf # <<>>)
         => /\ kp'.state = "IDLE"
            /\ kp'.buf = <<>>
            /\ ~Enrolled(kp'.last.val) => kp'.last.wrote = <<>>]_vars

\* the unmapped finger 2 was looked up while two characters were typed
C30_Witness ==
    /\ kp.last.op = "finger"
    /\ kp.last.val = 2
    /\ kp.last.state0 = "ENTERING"
    /\ kp.last.len0 = 2
    /\ kp.last.looked
    /\ kp.last.wrote = <<>>
    /\ kp.state = "IDLE"
    /\ kp.buf = <<>>

-----------------------------------------------------------------------------
(* The passes of the while loop of App.run of main.py and the finger queue. *)
(* What the keypad events and the typing timeout do to the state is        *)
(* followed in SpecKeypad; here they leave it IDLE or ENTERING.            *)

\* a pass starts: the idle tick, then keypad.poll()
LpStart ==
    /\ lp.pc = "top"
    /\ lp' = [lp EXCEPT !.pc = "keys", !.owed = Len(lp.fq), !.took = 0,
                        !.entering = FALSE]
    /\ UNCHANGED notLp

\* the keypad events of the pass and the typing timeout have been handled
LpKeypad ==
    /\ lp.pc = "keys"
    /\ \E s \in {"IDLE", "ENTERING"} : lp' = [lp EXCEPT !.pc = "fingers", !.state = s]
    /\ UNCHANGED notLp

\* the worker puts ("finger_ok", f) on the queue
LpPut ==
    /\ Len(lp.fq) < MaxQueue
    /\ \E f \in Fids : lp' = [lp EXCEPT !.fq = Append(@, f)]
    /\ UNCHANGED notLp

\* fq.get_nowait() returns an event, whatever the state: state and buf are
\* reset and handle_finger runs, clearing the queue when it drops the event
\* (recent) and when the finger is enrolled
LpFinger ==
    /\ lp.pc = "fingers"
    /\ lp.fq # <<>>
    /\ \E recent \in BOOLEAN :
        LET f == Head(lp.fq)
            q == IF recent \/ Enrolled(f) THEN ClearFingerQueue(Tail(lp.fq))
                 ELSE Tail(lp.fq)
        IN  lp' = [lp EXCEPT !.fq = q, !.state = "IDLE",
                             !.owed = IF @ = 0 THEN 0 ELSE Min(@ - 1, Len(q)),
                             !.took = Min(@ + 1, MaxQueue),
                             !.entering = @ \/ lp.state = "ENTERING"]
    /\ UNCHANGED notLp

\* a mutant: the queue is only looked at in IDLE
LpEmptyIdleOnly ==
    /\ lp.pc = "fingers"
    /\ lp.fq = <<>> \/ lp.state = "ENTERING"
    /\ lp' = [lp EXCEPT !.pc = "top"]
    /\ UNCHANGED notLp

\* queue.Empty ends the inner loop and the pass ends with time.sleep(0.02)
LpEmpty ==
    /\ lp.pc = "fingers"
    /\ lp.fq = <<>>
    /\ lp' = [lp EXCEPT !.pc = "top"]
    /\ UNCHANGED notLp

LoopNext ==
    \/ LpStart
    \/ LpKeypad
    \/ LpPut
    \/ LpFinger
    \/ LpEmpty

SpecLoop == Init /\ [][LoopNext]_vars

\* C31: every finger event that is queued when a pass of the main loop starts
\* has been dequeued when the pass ends, in IDLE and in ENTERING alike.
C31_QueuedEventsTakenInPass ==
    /\ [](lp.pc = "top" => lp.owed = 0)
    /\ [][(lp.pc = "fingers" /\ lp'.pc = "top") => lp.fq = <<>>]_vars

\* a pass that started with two events queued has ended, and it dequeued in
\* ENTERING
C31_Witness ==
    /\ lp.pc = "top"
    /\ lp.took = 2
    /\ lp.entering
    /\ lp.owed = 0

\* C32: an I/O error of the account lookup or of the attendance-log write
\* during a code submission or a finger event does not end the main loop:
\* the kiosk is back in IDLE and goes on taking events.
C32_LoopSurvivesIoError ==
    kp.last.op = "io_error" => (kp.pc \in {"poll", "fingers"} /\ kp.state = "IDLE")

\* C37: when a pass of the main loop has ended in IDLE the code buffer is
\* empty and the idle animator is enabled, also after a finger event dropped
\* by the debounce check while a code was being entered.
C37_IdleIsAnimated ==
    (kp.pc = "poll" /\ kp.state = "IDLE") => (kp.buf = <<>> /\ kp.idle)

-----------------------------------------------------------------------------
(* The per-frame timeout of verify_and_get_id *)

\* C33: verify_and_get_id waits 6 s per frame whenever the settings query
\* failed (transport result or reply status not Success) and otherwise the
\* scan timeout of payload byte 6 of the settings reply; the value chosen is
\* the timeout of the Verify reply and of every later frame of the handshake.
C33_VerifyTimeOutChosen ==
    [][/\ (call = "verify_and_get_id" /\ spc = "settings" /\ spc' # "settings")
            => time_out' = IF ret' # XG_ERR_SUCCESS \/ bData'[0] # XG_ERR_SUCCESS
                           THEN 6 ELSE bData'[6]
       /\ (call = "verify_and_get_id" /\ spc \in {"sent", "wait"} /\ rxSeq' # rxSeq)
            => /\ time_out' = time_out
               /\ ret' \in {o.ret : o \in RecvPacket(bData, HandshakeFrames, time_out)}
               /\ (time_out = 0 => ret' = XG_ERR_TIME_OUT)]_vars

\* a later frame of the handshake is awaited with the fallback timeout
C33_Witness ==
    /\ call = "verify_and_get_id"
    /\ spc = "wait"
    /\ frames >= 2
    /\ time_out = DEFAULT_TIME_OUT

-----------------------------------------------------------------------------
(* The order of App.shutdown *)

\* C34: App.shutdown stops the worker first: the close-connection frame is
\* sent and the serial handle is closed only when the FingerWorker is no
\* longer inside verify_and_get_id.
C34_WorkerDoneBeforeClose ==
    mpc \in {"close", "exit"} => wpc # "verify"

-----------------------------------------------------------------------------
(* assign_next_code (Test_Finger.py, Enroll_Finger.py, Enrol_Oled.py: the  *)
(* three copies are the same) and the enrollment flows that end in it or   *)
(* in a direct assignment (Final_Code.py).                                 *)

\* how many of the codes of AVAILABLE_CODES are configured
NumCodes == 3

\* the list of the source
ALL_CODES == <<"10001", "10002", "10003", "10004", "10005",
               "10006", "10007", "10008", "10009", "10010">>

AVAILABLE_CODES == SubSeq(ALL_CODES, 1, Min(NumCodes, Len(ALL_CODES)))

\* set(mapping.values())
Values(mapping) == {mapping[k] : k \in DOMAIN mapping}

\* mapping[uid] = code
Put(mapping, uid, code) ==
    [k \in DOMAIN mapping \cup {uid} |-> IF k = uid THEN code ELSE mapping[k]]

\* a mutant: the first code of the list is handed out whether used or not
AssignNextCodeFirst(user_id, mapping) ==
    LET uid == Dec(user_id)
    IN  IF uid \in DOMAIN mapping
        THEN [raised |-> FALSE, code |-> mapping[uid], mapping |-> mapping]
        ELSE [raised |-> FALSE, code |-> AVAILABLE_CODES[1],
              mapping |-> Put(mapping, uid, AVAILABLE_CODES[1])]

\* assign_next_code(user_id, mapping): the returned code, the mapping
\* afterwards, and whether RuntimeError was raised
AssignNextCode(user_id, mapping) ==
    LET uid == Dec(user_id)
        used == Values(mapping)
        free == {i \in 1..Len(AVAILABLE_CODES) : AVAILABLE_CODES[i] \notin used}
    IN  IF uid \in DOMAIN mapping
        THEN [raised |-> FALSE, code |-> mapping[uid], mapping |-> mapping]
        ELSE IF free = {}
        THEN [raised |-> TRUE, code |-> "", mapping |-> mapping]
        ELSE LET i == CHOOSE j \in free : \A l \in free : j <= l
             IN  [raised |-> FALSE, code |-> AVAILABLE_CODES[i],
                  mapping |-> Put(mapping, uid, AVAILABLE_CODES[i])]

-----------------------------------------------------------------------------
(* The enrollment flows: enroll_for_user of Final_Code.py and              *)
(* enroll_finger_for_selected_user of Enrol_Oled.py and Enroll_Finger.py.  *)
(* The two JSON files are read when a flow starts and written when it      *)
(* succeeds; en.fcm and en.ufm are their contents.                         *)

EnVariants == {"Final_Code", "Enrol_Oled", "Enroll_Finger"}

\* the Code column of the users of the CSV
EnUsers == {"10001", "10002"}

\* the ids get_empty_id can return
EmptyIds == {0, 1}

\* what enroll_user can return: Success, duplicate finger, another failure
EnrollResults == {XG_ERR_SUCCESS, DUPLICATE_REASON, XG_ERR_DATA}

\* what one keypad.poll() can return: up to two events
KeyBatches ==
    {<<>>} \cup {<<a>> : a \in {"back", "enter", "key"}}
           \cup {<<a, b>> : a \in {"back", "enter", "key"}, b \in {"back", "enter"}}

\* the first 'back' or 'enter' of a batch: the for loops over keypad.poll()
\* return, raise or break on it and look at nothing after it
RECURSIVE Decisive(_)
Decisive(batch) ==
    IF batch = <<>> THEN "none"
    ELSE IF Head(batch) \in {"back", "enter"} THEN Head(batch)
    ELSE Decisive(Tail(batch))

\* the flow is over
EnEnds(e, how) == [e EXCEPT !.pc = "done", !.out = how]

\* the function is entered: the maps are loaded; the flows of Enrol_Oled.py
\* and Enroll_Finger.py ask first when the user is already linked
EnEnter(e, variant, user) ==
    [e EXCEPT !.variant = variant, !.user = user, !.finger_id = -1, !.key = "none",
              !.pc = IF variant # "Final_Code" /\ user \in DOMAIN e.ufm
                     THEN "linked" ELSE "prompt"]

\* an enrollment flow starts for a selected user
EnStart ==
    /\ en.pc = "idle"
    /\ \E variant \in EnVariants, user \in EnUsers :
        en' = EnEnter([en EXCEPT !.called = FALSE, !.result = -1, !.out = "none"],
                      variant, user)
    /\ UNCHANGED notEn

\* ALREADY LINKED: BACK (or an answer other than y) returns the existing
\* link, ENTER (or y) goes on to the enrollment prompt
EnLinked ==
    /\ en.pc = "linked"
    /\ \E batch \in KeyBatches :
        LET d == Decisive(batch)
        IN  /\ d # "none"
            /\ en' = IF d = "back"
                     THEN EnEnds([en EXCEPT !.key = d], "return")
                     ELSE [en EXCEPT !.key = "none", !.pc = "prompt"]
    /\ UNCHANGED notEn

\* the ENROLL NEW prompt of enroll_for_user of Final_Code.py on one batch of
\* keypad.poll(): 'back' returns; 'enter' breaks out of the for loop only,
\* and the enclosing `while True` polls again after time.sleep(0.05)
PromptFinalCode(e, batch) ==
    LET d == Decisive(batch)
    IN  IF d = "back" THEN EnEnds([e EXCEPT !.key = d], "return")
        ELSE IF d = "enter" THEN [e EXCEPT !.key = d]
        ELSE e

\* the ENROLL NEW prompt of Enrol_Oled.py: 'back' raises "Enrollment
\* cancelled.", 'enter' breaks out of both loops (for ... else)
PromptEnrolOled(e, batch) ==
    LET d == Decisive(batch)
    IN  IF d = "back" THEN EnEnds([e EXCEPT !.key = d], "raise")
        ELSE IF d = "enter" THEN [e EXCEPT !.key = d, !.pc = "empty"]
        ELSE e

\* input("Press ENTER, ...") of Enroll_Finger.py returns on any line
PromptEnrollFinger(e) == [e EXCEPT !.key = "enter", !.pc = "empty"]

\* one keypad.poll() (or one line of input) at the enrollment prompt
EnPrompt ==
    /\ en.pc = "prompt"
    /\ \E batch \in KeyBatches :
        en' = CASE en.variant = "Final_Code" -> PromptFinalCode(en, batch)
                [] en.variant = "Enrol_Oled" -> PromptEnrolOled(en, batch)
                [] OTHER -> PromptEnrollFinger(en)
    /\ en' # en
    /\ UNCHANGED notEn

\* sensor.get_empty_id returns an id or raises
EnGetEmptyId ==
    /\ en.pc = "empty"
    /\ \/ \E id \in EmptyIds :
            en' = [en EXCEPT !.called = TRUE, !.finger_id = id, !.pc = "enroll"]
       \/ en' = EnEnds([en EXCEPT !.called = TRUE], "raise")
    /\ UNCHANGED notEn

\* a mutant: the link is saved whatever enroll_user returned
SaveLinkAlways(e, r) ==
    LET a == AssignNextCode(e.finger_id, e.fcm)
        code == IF e.variant = "Final_Code" THEN e.user ELSE a.code
    IN  EnEnds([e EXCEPT
                   !.fcm = IF e.variant = "Final_Code"
                           THEN Put(@, Dec(e.finger_id), e.user) ELSE a.mapping,
                   !.ufm = Put(@, e.user, [finger_id |-> e.finger_id, code |-> code])],
               "return")

\* what follows enroll_user's return value r: the two maps are written on
\* Success (Final_Code.py links the finger to the user's code, the others to
\* the code of assign_next_code); a duplicate finger leads to the retry
\* prompt of Enrol_Oled.py and Enroll_Finger.py; anything else ends the flow
SaveLink(e, r) ==
    LET a == AssignNextCode(e.finger_id, e.fcm)
        code == IF e.variant = "Final_Code" THEN e.user ELSE a.code
    IN  IF r = XG_ERR_SUCCESS
        THEN IF e.variant # "Final_Code" /\ a.raised
             THEN EnEnds(e, "raise")
             ELSE EnEnds([e EXCEPT
                             !.fcm = IF e.variant = "Final_Code"
                                     THEN Put(@, Dec(e.finger_id), e.user)
                                     ELSE a.mapping,
                             !.ufm = Put(@, e.user, [finger_id |-> e.finger_id,
                                                     code |-> code])],
                         "return")
        ELSE IF e.variant = "Final_Code"
        THEN EnEnds(e, "return")
        ELSE IF r = DUPLICATE_REASON
        THEN [e EXCEPT !.pc = "dup", !.key = "none"]
        ELSE EnEnds(e, "raise")

\* sensor.enroll_user returns
EnEnrollUser ==
    /\ en.pc = "enroll"
    /\ \E r \in EnrollResults : en' = SaveLink([en EXCEPT !.result = r], r)
    /\ UNCHANGED notEn

\* sensor.enroll_user raises (a serial error)
EnEnrollRaises ==
    /\ en.pc = "enroll"
    /\ en' = EnEnds(en, "raise")
    /\ UNCHANGED notEn

\* FINGER EXISTS: BACK (or an answer other than y) raises, ENTER (or y)
\* starts over; Enrol_Oled.py calls itself and so loads the maps and asks
\* about an existing link again
EnDup ==
    /\ en.pc = "dup"
    /\ \E batch \in KeyBatches :
        LET d == Decisive(batch)
        IN  /\ d # "none"
            /\ en' = IF d = "back"
                     THEN EnEnds([en EXCEPT !.key = d], "raise")
                     ELSE IF en.variant = "Enrol_Oled"
                     THEN EnEnter(en, en.variant, en.user)
                     ELSE [en EXCEPT !.key = "none", !.pc = "prompt"]
    /\ UNCHANGED notEn

\* the caller goes on; the files stay as they are
EnDone ==
    /\ en.pc = "done"
    /\ en' = [EnInit EXCEPT !.fcm = en.fcm, !.ufm = en.ufm]
    /\ UNCHANGED notEn

EnrollNext ==
    \/ EnStart
    \/ EnLinked
    \/ EnPrompt
    \/ EnGetEmptyId
    \/ EnEnrollUser
    \/ EnEnrollRaises
    \/ EnDup
    \/ EnDone

\* the enrollment flows, one after the other
SpecEnroll == Init /\ [][EnrollNext]_vars

\* C35: at the ENROLL NEW prompt of enroll_for_user of Final_Code.py ENTER
\* ends the prompt and the flow goes on to get_empty_id and enroll_user,
\* and BACK returns without any sensor operation having been called.
C35_EnterStartsEnrollment ==
    en.variant = "Final_Code" =>
        /\ en.key = "enter" => en.pc \in {"empty", "enroll", "done"}
        /\ en.key = "back" => (en.pc = "done" /\ en.out = "return" /\ ~en.called)

\* C39: an enrollment flow changes finger_code_map and user_finger_map only
\* when enroll_user has returned 0, and what it records is the id that
\* get_empty_id returned; when get_empty_id raises, enroll_user returns
\* another value or the flow is cancelled, both maps stay as they were.
C39_MapsChangeOnlyOnSuccess ==
    [][(en'.fcm # en.fcm \/ en'.ufm # en.ufm) =>
          /\ en.pc = "enroll"
          /\ en'.result = 0
          /\ en.called
          /\ Dec(en.finger_id) \in DOMAIN en'.fcm
          /\ en'.ufm[en.user].finger_id = en.finger_id
          /\ \A k \in DOMAIN en.fcm : k # Dec(en.finger_id) => en'.fcm[k] = en.fcm[k]
          /\ \A u \in DOMAIN en.ufm : u # en.user => en'.ufm[u] = en.ufm[u]]_vars

\* a flow of Enrol_Oled.py has linked a second finger after a duplicate
C39_Witness ==
    /\ en.pc = "done"
    /\ en.out = "return"
    /\ en.result = 0
    /\ en.variant = "Enrol_Oled"
    /\ en.finger_id = 1
    /\ DOMAIN en.fcm = {Dec(0), Dec(1)}
    /\ en.ufm[en.user].finger_id = 1

-----------------------------------------------------------------------------
(* assign_next_code called again and again on one mapping that starts empty *)

\* the finger ids of the calls: one more than there are codes
AmIds == 0..NumCodes

\* assign_next_code(user_id, mapping); the caller keeps the mapping
AmCall ==
    /\ \E user_id \in AmIds :
        LET a == AssignNextCode(user_id, am.mapping)
        IN  am' = [mapping |-> a.mapping, uid |-> user_id, before |-> am.mapping,
                   code |-> a.code, raised |-> a.raised]
    /\ UNCHANGED notAm

AssignNext == AmCall

SpecAssign == Init /\ [][AssignNext]_vars

\* C40: after any sequence of assign_next_code calls from an empty mapping
\* no two finger ids map to the same code; a call for an unmapped id adds
\* the first code of AVAILABLE_CODES that no id has and returns it; a call
\* for a mapped id returns its code and changes nothing; when every code is
\* taken the call raises and changes nothing.
C40_AssignNextCode ==
    /\ \A a, b \in DOMAIN am.mapping : a # b => am.mapping[a] # am.mapping[b]
    /\ am.uid >= 0 =>
        LET uid == Dec(am.uid)
            taken == {am.before[k] : k \in DOMAIN am.before}
            codes == {AVAILABLE_CODES[i] : i \in 1..Len(AVAILABLE_CODES)}
        IN  /\ uid \in DOMAIN am.before =>
                 (~am.raised /\ am.code = am.before[uid] /\ am.mapping = am.before)
            /\ (uid \notin DOMAIN am.before /\ codes \subseteq taken) =>
                 (am.raised /\ am.mapping = am.before)
            /\ (uid \notin DOMAIN am.before /\ ~(codes \subseteq taken)) =>
                 /\ ~am.raised
                 /\ \E i \in 1..Len(AVAILABLE_CODES) :
                      /\ am.code = AVAILABLE_CODES[i]
                      /\ am.code \notin taken
                      /\ \A j \in 1..(i - 1) : AVAILABLE_CODES[j] \in taken
                 /\ DOMAIN am.mapping = DOMAIN am.before \cup {uid}
                 /\ am.mapping[uid] = am.code
                 /\ \A k \in DOMAIN am.before : am.mapping[k] = am.before[k]

\* every code is taken and a call for one more id has raised
C40_Witness ==
    /\ am.raised
    /\ Cardinality(DOMAIN am.mapping) = Len(AVAILABLE_CODES)
    /\ Dec(am.uid) \notin DOMAIN am.mapping

-----------------------------------------------------------------------------
(* The serial line.  _build_and_send writes the command frame and calls    *)
(* _recv_packet, which takes the first 24 bytes of the input buffer; the   *)
(* buffer is not emptied before the write, and RSP.bCmd is not compared    *)
(* with the command.  The device answers each command once, at its own     *)
(* time.                                                                   *)

\* how many operations are started
MaxOps == 3

\* the commands of the operations
LineCmds == {XG_CMD_GET_SYSTEM_INFO, XG_CMD_VERIFY}

\* _build_and_send up to ser.write / ser.flush: operation n + 1 starts
SbSend ==
    /\ sb.pc = "idle"
    /\ sb.n < MaxOps
    /\ \E c \in LineCmds :
        sb' = [sb EXCEPT !.pc = "recv", !.n = @ + 1, !.cmd = c,
                         !.owed = Append(@, [cmd |-> c, of |-> sb.n + 1])]
    /\ UNCHANGED notSb

\* the device answers the oldest command it has not answered
SbDeviceReply ==
    /\ sb.owed # <<>>
    /\ sb' = [sb EXCEPT !.owed = Tail(@), !.inbuf = Append(@, Head(sb.owed))]
    /\ UNCHANGED notSb

\* _recv_packet: in_waiting >= 24, the 24 bytes at the head of the input
\* buffer are read, parsed and, the checksum matching, accepted
SbRecvFrame ==
    /\ sb.pc = "recv"
    /\ sb.inbuf # <<>>
    /\ sb' = [sb EXCEPT !.pc = "idle", !.inbuf = Tail(@),
                        !.last = [cmd |-> Head(sb.inbuf).cmd,
                                  of |-> Head(sb.inbuf).of, by |-> sb.n]]
    /\ UNCHANGED notSb

\* _recv_packet: nothing arrived within the timeout, XG_ERR_TIME_OUT
SbRecvTimeout ==
    /\ sb.pc = "recv"
    /\ sb.inbuf = <<>>
    /\ sb' = [sb EXCEPT !.pc = "idle"]
    /\ UNCHANGED notSb

LineNext ==
    \/ SbSend
    \/ SbDeviceReply
    \/ SbRecvFrame
    \/ SbRecvTimeout

SpecLine == Init /\ [][LineNext]_vars

\* C36: every reply frame an operation accepts was sent by the device in
\* response to that operation's command; a reply that arrives after an
\* earlier operation timed out is never taken as the reply of a later one.
C36_ReplyBelongsToOperation ==
    sb.last # NoFrame => sb.last.of = sb.last.by

-----------------------------------------------------------------------------
(* The IN/OUT status of one user code (main.py, get_user_status,           *)
(* log_attendance, update_user_status).  Each of the three reads           *)
(* datetime.now() for itself, so the date can change between them.         *)

\* the last day
MaxDay == 2

\* midnight passes
StMidnight ==
    /\ st.day < MaxDay
    /\ st' = [st EXCEPT !.day = @ + 1]
    /\ UNCHANGED notSt

\* get_user_status: the file afterwards and the returned status
GetUserStatus(s) ==
    IF s.last_reset # s.day
    THEN [file |-> [last_reset |-> s.day, status |-> "none"], value |-> "OUT"]
    ELSE [file |-> [last_reset |-> s.last_reset, status |-> s.status],
          value |-> IF s.status = "none" THEN "OUT" ELSE s.status]

\* a successful check-in of the user starts (handle_finger or
\* handle_code_submit): current_status = get_user_status(code) and
\* action = "OUT" if current_status == "IN" else "IN"
StGetStatus ==
    /\ st.pc = "idle"
    /\ LET g == GetUserStatus(st)
       IN  st' = [st EXCEPT !.last_reset = g.file.last_reset,
                            !.status = g.file.status,
                            !.action = IF g.value = "IN" THEN "OUT" ELSE "IN",
                            !.pc = "log"]
    /\ UNCHANGED notSt

\* log_attendance(name, code, method, action): the row carries the date of
\* its own datetime.now()
StLog ==
    /\ st.pc = "log"
    /\ st' = [st EXCEPT !.prev = st.rec,
                        !.rec = [day |-> st.day, action |-> st.action],
                        !.pc = "update"]
    /\ UNCHANGED notSt

\* update_user_status(code, action): a file of another day is reset first
StUpdate ==
    /\ st.pc = "update"
    /\ st' = [st EXCEPT !.last_reset = st.day, !.status = st.action,
                        !.action = "none", !.pc = "idle"]
    /\ UNCHANGED notSt

\* another user checks in on a new day: the file is reset by that
\* check-in and the entry of this user is gone
StOtherUser ==
    /\ st.last_reset # st.day
    /\ st' = [st EXCEPT !.last_reset = st.day, !.status = "none"]
    /\ UNCHANGED notSt

StatusNext ==
    \/ StMidnight
    \/ StGetStatus
    \/ StLog
    \/ StUpdate
    \/ StOtherUser

SpecStatus == Init /\ [][StatusNext]_vars

\* C38: for one user code the actions recorded by successive successful
\* check-ins of one calendar day alternate IN, OUT, IN, ..., the first
\* check-in of a day (the first ever, or the first after the date changed)
\* being IN, and after a check-in the stored status is the action recorded.
C38_AlternatesWithinDay ==
    /\ st.rec # NoRecord =>
          IF st.prev.day # st.rec.day
          THEN st.rec.action = "IN"
          ELSE st.rec.action # st.prev.action
    /\ (st.pc = "idle" /\ st.rec # NoRecord /\ st.last_reset = st.rec.day
          /\ st.status # "none") => st.status = st.rec.action

====
